---- MODULE Spec2Model ----
(***************************************************************************)
(* The vehicle/document tracker's HTTP service (Hono app over a key-value  *)
(* Record Store, a Blob Store and an Identity adapter) as a state machine. *)
(* One action per client request shape; every request is routed through    *)
(* the app's route table in registration order and served by the handler   *)
(* the table selects.                                                      *)
(*                                                                         *)
(* Strings that the code concatenates (storage keys, ids, blob paths) are  *)
(* sequences of atoms, "_" and "/" being atoms of their own, so that a     *)
(* prefix scan is a prefix test on the concatenation.  A date string is    *)
(* <<>> (the empty string) or <<d>>, d the instant in days; the clock      *)
(* `now` counts days.                                                      *)
(***************************************************************************)
EXTENDS Integers, Sequences, FiniteSets, TLC

VARIABLES
    kv,          \* Record Store: key -> JSON value
    blobs,       \* Blob Store: the set of object paths that hold a blob
    now,         \* the server clock (Date.now())
    nextId,      \* number of random id suffixes drawn so far
    metadata,    \* Identity adapter: user -> user_metadata
    createdBy,   \* history: key ever set -> who created it, with which ids
    last,        \* the last request served and the response it got
    inflight,    \* update requests between their kv.get and their kv.set
    derived,     \* a date string in the vehicle form and the status derived from it
    login,       \* LoginScreen: its state and the position of its handler
    app,         \* App: its state and the position of checkSession
    notifications \* DashboardScreen: the vehicles loaded and the notifications built

server == <<kv, blobs, now, nextId, metadata, createdBy, last, inflight, derived>>
vars == <<kv, blobs, now, nextId, metadata, createdBy, last, inflight, derived,
          login, app, notifications>>

-----------------------------------------------------------------------------
(* Bounds of the model *)

MaxTime == 1         \* the clock runs from 0 to MaxTime
MaxVehicleIds == 1   \* ids drawn in SpecVehicles
MaxIds == 2          \* ids drawn in Spec
MaxDate == 61        \* dates typed into the form run from -2 to MaxDate (days)

-----------------------------------------------------------------------------
(* Users, tokens, identity adapter *)

Users == {"A", "B"}
NoUser == "none"
NoToken == "undefined"
AnonKey == "anon"
Token(u) == IF u = "A" THEN "tokA" ELSE "tokB"
Tokens == {Token(u) : u \in Users} \cup {AnonKey, "stale"}

\* The Authorization header as the list of its space-separated words.
Headers == {<<>>} \cup {<<"Bearer", t>> : t \in Tokens}

\* c.req.header('Authorization')?.split(' ')[1]
AccessToken(header) == IF Len(header) >= 2 THEN header[2] ELSE NoToken

\* supabase.auth.getUser(accessToken): the user the token was issued to, or none.
getUser(token) ==
    IF \E u \in Users : Token(u) = token
    THEN CHOOSE u \in Users : Token(u) = token
    ELSE NoUser

\* The preamble of every handler but GET /profile. `asked` records whether the
\* identity adapter was consulted.
Authenticate(header) ==
    LET token == AccessToken(header) IN
    IF token = NoToken \/ token = AnonKey
    THEN [ok |-> FALSE, user |-> NoUser, asked |-> FALSE]
    ELSE [ok |-> getUser(token) # NoUser, user |-> getUser(token), asked |-> TRUE]

\* The preamble of GET /profile: no comparison with the anonymous key.
AuthenticateProfile(header) ==
    LET token == AccessToken(header) IN
    IF token = NoToken
    THEN [ok |-> FALSE, user |-> NoUser, asked |-> FALSE]
    ELSE [ok |-> getUser(token) # NoUser, user |-> getUser(token), asked |-> TRUE]

-----------------------------------------------------------------------------
(* Strings, keys, ids *)

IsPrefix(p, s) == Len(p) <= Len(s) /\ SubSeq(s, 1, Len(p)) = p

\* Faulty variant: the scan prefix without the user's id
VehiclePrefixAllUsers(u) == <<"vehicle", "_">>

\* `vehicle_${user.id}_`
VehiclePrefix(u) == <<"vehicle", "_", u, "_">>
\* `vehicle_${user.id}_${vehicleId}`
VehicleKey(u, vehicleId) == <<"vehicle", "_", u, "_">> \o vehicleId

\* `user_profile_${user.id}`
ProfileKey(u) == <<"user_profile", "_", u>>

\* `document_${user.id}_`
UserDocumentPrefix(u) == <<"document", "_", u, "_">>
\* `document_${user.id}_${vehicleId}_`
DocumentPrefix(u, vehicleId) == <<"document", "_", u, "_">> \o vehicleId \o <<"_">>
\* Faulty variant: the key layout without the vehicle id
DocumentKeyWithoutVehicle(u, vehicleId, documentId) ==
    <<"document", "_", u, "_">> \o documentId

\* `document_${user.id}_${vehicleId}_${documentId}`
DocumentKey(u, vehicleId, documentId) ==
    <<"document", "_", u, "_">> \o vehicleId \o <<"_">> \o documentId

\* `${Date.now()}_${Math.random().toString(36).substr(2, 9)}`: the n-th random
\* suffix drawn is distinct from the ones drawn before it.
GenerateId(time, n) == <<ToString(time), "_", ToString(n)>>

\* new Date().toISOString(), and new Date(s).getTime() on a date string
ISO(time) == <<time>>
GetTime(s) == s[1]

-----------------------------------------------------------------------------
(* Record Store adapter *)

EmptyStore == [k \in {} |-> <<>>]
kv_get(store, key) == IF key \in DOMAIN store THEN {store[key]} ELSE {}
kv_set(store, key, value) ==
    [k \in DOMAIN store \cup {key} |-> IF k = key THEN value ELSE store[k]]
kv_del(store, key) == [k \in DOMAIN store \ {key} |-> store[k]]
ScanKeys(store, prefix) == {k \in DOMAIN store : IsPrefix(prefix, k)}
kv_getByPrefix(store, prefix) == {store[k] : k \in ScanKeys(store, prefix)}

\* { ...a, ...b }
Spread(a, b) ==
    [f \in DOMAIN a \cup DOMAIN b |-> IF f \in DOMAIN b THEN b[f] ELSE a[f]]

-----------------------------------------------------------------------------
(* Status derivation (client) *)

MsPerMonthInDays == 30
WarningMonths == 2

\* Faulty variant: a date equal to now counts as past
getStatusFromDateStrict(dateStr, time) ==
    IF dateStr = <<>> THEN "expired"
    ELSE LET diff == GetTime(dateStr) - time IN
         IF diff <= 0 THEN "expired"
         ELSE IF diff < WarningMonths * MsPerMonthInDays THEN "warning"
         ELSE "valid"

\* getStatusFromDate(dateStr), with `time` the value of new Date()
getStatusFromDate(dateStr, time) ==
    IF dateStr = <<>> THEN "expired"
    ELSE LET diff == GetTime(dateStr) - time IN   \* diffMonths * 30 days
         IF diff < 0 THEN "expired"
         ELSE IF diff < WarningMonths * MsPerMonthInDays THEN "warning"
         ELSE "valid"

-----------------------------------------------------------------------------
(* Requests the clients send *)

Items == {"insurance", "inspection", "taxes"}

PastDate == <<-10>>
FarDate == <<3650>>

\* The scenario payload: dates only, no status fields.
CivicPayload ==
    [name |-> "Civic",
     insurance |-> [date |-> PastDate],
     inspection |-> [date |-> FarDate],
     taxes |-> [date |-> <<>>]]

\* A partial payload that carries a status of the client's own.
GolfPayload ==
    [name |-> "Golf", insurance |-> [date |-> PastDate, status |-> "valid"]]

\* A payload that names the server-stamped fields.
StampedPayload ==
    [id |-> <<"x">>, userId |-> "A", createdAt |-> <<-1>>, updatedAt |-> <<-1>>]

VehiclePayloads == {CivicPayload, GolfPayload, StampedPayload}

\* A form as VehicleForm.handleSubmit sends it: each item with its status.
PoloPayload ==
    [name |-> "Polo", plate |-> "AA-00-AA",
     insurance |-> [date |-> PastDate, status |-> "expired"],
     inspection |-> [date |-> FarDate, status |-> "valid"],
     taxes |-> [date |-> FarDate, status |-> "valid"]]

NoPayload == [f \in {} |-> <<>>]

\* Document metadata as the client's form sends it.
PolicyDocument == [type |-> "insurance", name |-> "Policy"]

\* Metadata that names the server's fields, copied from a stored document.
CopiedDocuments ==
    {[id |-> kv[k].id, filePath |-> kv[k].filePath] :
        k \in {d \in DOMAIN kv : "filePath" \in DOMAIN kv[d]}}

\* Multipart parts of an upload.
NoPart == [kind |-> "missing"]
MalformedPart == [kind |-> "malformed"]
JsonPart(value) == [kind |-> "json", value |-> value]
PdfFile == [kind |-> "file", name |-> <<"policy", ".", "pdf">>,
            type |-> "application/pdf", size |-> 1024]

\* Ids a client may name in a path: the ids the server has handed out, the
\* ids stored records carry, and one the server never produced.
DeletedKeys == DOMAIN createdBy \ DOMAIN kv
VehicleKeys(store) == {k \in DOMAIN store : k[1] = "vehicle"}
DocumentKeys(store) == {k \in DOMAIN store : k[1] = "document"}
VehiclePathIds ==
    {createdBy[k].id : k \in VehicleKeys(createdBy)}
        \cup {kv[k].id : k \in VehicleKeys(kv)} \cup {<<"x">>}
DocumentPathIds ==
    {createdBy[k].id : k \in DocumentKeys(createdBy)}
        \cup {kv[k].id : k \in DocumentKeys(kv)} \cup {<<"x">>}

\* What the profile screen saves: one field per request.
PhonePayload == [phone |-> "912345678"]

\* Other fields a PUT /profile body may name, the identity's own among them.
ProfilePayloads ==
    {PhonePayload, [name |-> ""], [avatar |-> "me.png"],
     [email |-> <<"ana", "@", "example.org">>]}

-----------------------------------------------------------------------------
(* Routing: app.get/post/put/delete in registration order *)

Lit(s) == <<s>>
Param == <<":">>

Route(method, pattern, handler) ==
    [method |-> method, pattern |-> pattern, handler |-> handler]

Routes == <<
    Route("GET",    <<Lit("health")>>, "health"),
    Route("POST",   <<Lit("signup")>>, "signup"),
    Route("GET",    <<Lit("profile")>>, "getProfile"),
    Route("GET",    <<Lit("vehicles")>>, "listVehicles"),
    Route("POST",   <<Lit("vehicles")>>, "createVehicle"),
    Route("PUT",    <<Lit("vehicles"), Param>>, "updateVehicle"),
    Route("DELETE", <<Lit("vehicles"), Param>>, "deleteVehicle"),
    Route("GET",    <<Lit("vehicles"), Param, Lit("documents")>>, "listDocuments"),
    Route("POST",   <<Lit("vehicles"), Param, Lit("documents"), Lit("upload")>>, "uploadDocument"),
    Route("POST",   <<Lit("vehicles"), Param, Lit("documents")>>, "addDocumentMetadata"),
    Route("GET",    <<Lit("documents"), Param, Lit("url")>>, "getSignedUrl"),
    Route("PUT",    <<Lit("profile")>>, "updateProfile"),
    Route("GET",    <<Lit("history")>>, "history"),
    Route("GET",    <<Lit("stats")>>, "stats"),
    Route("POST",   <<Lit("vehicles"), Param, Lit("documents"), Lit("upload")>>, "uploadDocument2"),
    Route("GET",    <<Lit("documents"), Param, Lit("url")>>, "getSignedUrl2")
>>

RouteMatches(route, method, path) ==
    /\ route.method = method
    /\ Len(route.pattern) = Len(path)
    /\ \A i \in 1..Len(path) : route.pattern[i] = Param \/ route.pattern[i] = path[i]

\* The first route registered that matches serves the request (no handler
\* calls next()); with no match the framework answers 404.
Dispatch(method, path) ==
    LET matching == {i \in DOMAIN Routes : RouteMatches(Routes[i], method, path)} IN
    IF matching = {} THEN "notFound"
    ELSE Routes[CHOOSE i \in matching : \A j \in matching : i <= j].handler

-----------------------------------------------------------------------------
(* Requests and responses *)

Request(method, path, header, payload) ==
    [method |-> method, path |-> path, header |-> header, payload |-> payload]

\* What the Blob Store answered while the request was served: "ok", "error",
\* or "" when the call was not made.
Blob(upload, sign) == [upload |-> upload, sign |-> sign]
NoBlobCall == Blob("", "")
Outcomes == {"ok", "error"}

Respond(req, handler, auth, status, body, url, blob) ==
    [method |-> req.method, path |-> req.path, header |-> req.header,
     payload |-> req.payload, handler |-> handler,
     user |-> auth.user, asked |-> auth.asked, status |-> status,
     body |-> body, url |-> url, blob |-> blob]

Response(req, handler, auth, status, body, url) ==
    Respond(req, handler, auth, status, body, url, NoBlobCall)

\* No request is being served.
Idle ==
    [method |-> "", path |-> <<>>, header |-> <<>>, payload |-> NoPayload,
     handler |-> "", user |-> NoUser, asked |-> FALSE,
     status |-> 0, body |-> {}, url |-> <<>>, blob |-> NoBlobCall]

Anonymous == [ok |-> FALSE, user |-> NoUser, asked |-> FALSE]

\* A handler that only answers.
Answer(req, handler, auth, status, body, url) ==
    /\ last' = Response(req, handler, auth, status, body, url)
    /\ UNCHANGED <<kv, blobs, now, nextId, metadata, createdBy>>

\* A handler that only answers, after calls to the Blob Store.
AnswerBlob(req, handler, auth, status, body, url, blob) ==
    /\ last' = Respond(req, handler, auth, status, body, url, blob)
    /\ UNCHANGED <<kv, blobs, now, nextId, metadata, createdBy>>

Created(user, id, vehicleId) == [user |-> user, id |-> id, vehicleId |-> vehicleId]

-----------------------------------------------------------------------------
(* Vehicle handlers *)

\* app.get("/make-server-b763bb62/vehicles")
ListVehicles(req) ==
    LET auth == Authenticate(req.header) IN
    IF ~auth.ok
    THEN Answer(req, "listVehicles", auth, 401, {}, <<>>)
    ELSE Answer(req, "listVehicles", auth, 200,
                kv_getByPrefix(kv, VehiclePrefix(auth.user)), <<>>)

\* The record POST /vehicles builds.
NewVehicle(user, vehicleId, vehicleData, time) ==
    Spread(Spread([id |-> vehicleId, userId |-> user], vehicleData),
           [createdAt |-> ISO(time), updatedAt |-> ISO(time)])

\* app.post("/make-server-b763bb62/vehicles"); `limit` bounds the ids drawn.
CreateVehicle(req, limit) ==
    LET auth == Authenticate(req.header) IN
    IF ~auth.ok
    THEN Answer(req, "createVehicle", auth, 401, {}, <<>>)
    ELSE LET vehicleId == GenerateId(now, nextId)
             vehicle == NewVehicle(auth.user, vehicleId, req.payload, now)
             key == VehicleKey(auth.user, vehicleId)
         IN /\ nextId < limit
            /\ nextId' = nextId + 1
            /\ kv' = kv_set(kv, key, vehicle)
            /\ createdBy' = kv_set(createdBy, key, Created(auth.user, vehicleId, <<>>))
            /\ UNCHANGED <<blobs, now, metadata>>
            /\ last' = Response(req, "createVehicle", auth, 200, {vehicle}, <<>>)

\* Faulty variant: the payload replaces the record instead of being merged onto it
UpdatedVehicleReplaced(existingVehicle, vehicleData, time) ==
    Spread(vehicleData, [updatedAt |-> ISO(time)])

\* The record PUT /vehicles/:vehicleId builds.
UpdatedVehicle(existingVehicle, vehicleData, time) ==
    Spread(Spread(existingVehicle, vehicleData), [updatedAt |-> ISO(time)])

\* app.put("/make-server-b763bb62/vehicles/:vehicleId")
UpdateVehicle(req) ==
    LET auth == Authenticate(req.header)
        vehicleId == req.path[2]
        key == VehicleKey(auth.user, vehicleId)
    IN
    IF ~auth.ok
    THEN Answer(req, "updateVehicle", auth, 401, {}, <<>>)
    ELSE IF kv_get(kv, key) = {}
    THEN Answer(req, "updateVehicle", auth, 404, {}, <<>>)
    ELSE LET updatedVehicle == UpdatedVehicle(kv[key], req.payload, now)
         IN /\ kv' = kv_set(kv, key, updatedVehicle)
            /\ UNCHANGED <<blobs, now, nextId, metadata, createdBy>>
            /\ last' = Response(req, "updateVehicle", auth, 200, {updatedVehicle}, <<>>)

\* Faulty variant: a delete that removes the vehicle's documents with it
DeleteVehicleCascading(req) ==
    LET auth == Authenticate(req.header)
        key == VehicleKey(auth.user, req.path[2])
        gone == {key} \cup ScanKeys(kv, <<"document", "_", auth.user, "_">>
                                           \o req.path[2] \o <<"_">>)
    IN
    IF ~auth.ok
    THEN Answer(req, "deleteVehicle", auth, 401, {}, <<>>)
    ELSE IF kv_get(kv, key) = {}
    THEN Answer(req, "deleteVehicle", auth, 404, {}, <<>>)
    ELSE /\ kv' = [k \in DOMAIN kv \ gone |-> kv[k]]
         /\ UNCHANGED <<blobs, now, nextId, metadata, createdBy>>
         /\ last' = Response(req, "deleteVehicle", auth, 200, {}, <<>>)

\* Faulty variant: a delete that does not look the vehicle up first
DeleteVehicleUnchecked(req) ==
    LET auth == Authenticate(req.header)
        key == VehicleKey(auth.user, req.path[2])
    IN
    IF ~auth.ok
    THEN Answer(req, "deleteVehicle", auth, 401, {}, <<>>)
    ELSE /\ kv' = kv_del(kv, key)
         /\ UNCHANGED <<blobs, now, nextId, metadata, createdBy>>
         /\ last' = Response(req, "deleteVehicle", auth, 200, {}, <<>>)

\* app.delete("/make-server-b763bb62/vehicles/:vehicleId")
DeleteVehicle(req) ==
    LET auth == Authenticate(req.header)
        vehicleId == req.path[2]
        key == VehicleKey(auth.user, vehicleId)
    IN
    IF ~auth.ok
    THEN Answer(req, "deleteVehicle", auth, 401, {}, <<>>)
    ELSE IF kv_get(kv, key) = {}
    THEN Answer(req, "deleteVehicle", auth, 404, {}, <<>>)
    ELSE /\ kv' = kv_del(kv, key)
         /\ UNCHANGED <<blobs, now, nextId, metadata, createdBy>>
         /\ last' = Response(req, "deleteVehicle", auth, 200, {}, <<>>)

-----------------------------------------------------------------------------
(* Document handlers *)

\* app.get("/make-server-b763bb62/vehicles/:vehicleId/documents")
ListDocuments(req) ==
    LET auth == Authenticate(req.header)
        vehicleId == req.path[2]
    IN
    IF ~auth.ok
    THEN Answer(req, "listDocuments", auth, 401, {}, <<>>)
    ELSE Answer(req, "listDocuments", auth, 200,
                kv_getByPrefix(kv, DocumentPrefix(auth.user, vehicleId)), <<>>)

\* file.name.split('.').pop()
FileExtension(name) == name[Len(name)]

\* `${user.id}/${vehicleId}/${documentId}.${fileExtension}`
BlobPath(user, vehicleId, documentId, fileExtension) ==
    <<user, "/">> \o vehicleId \o <<"/">> \o documentId \o <<".", fileExtension>>

\* createSignedUrl(path, ttl).data?.signedUrl: undefined (<<>>) when the call fails.
SignedUrl(path, sign) == IF sign = "ok" THEN <<"signed">> \o path ELSE <<>>

\* storage.upload(path, file, {upsert: false}): fails when the store fails, and
\* always when an object already sits at the path.
UploadOutcomes(store, path) == IF path \in store THEN {"error"} ELSE Outcomes

\* The record the first upload handler builds; documentData is null when the
\* part is missing (JSON.parse(null)).
UploadedDocument(user, vehicleId, documentId, part, file, path, url, time) ==
    Spread(Spread([id |-> documentId, userId |-> user, vehicleId |-> vehicleId],
                  IF part.kind = "json" THEN part.value ELSE NoPayload),
           [fileName |-> file.name, fileType |-> file.type, fileSize |-> file.size,
            filePath |-> path, fileUrl |-> url,
            createdAt |-> ISO(time), updatedAt |-> ISO(time)])

\* Faulty variant: the metadata is stored before the blob write is known to have succeeded
UploadDocumentMetadataFirst(req, limit) ==
    LET auth == Authenticate(req.header)
        vehicleId == req.path[2]
        file == req.payload.file
        part == req.payload.documentData
    IN
    IF ~auth.ok
    THEN Answer(req, "uploadDocument", auth, 401, {}, <<>>)
    ELSE IF part.kind = "malformed"
    THEN Answer(req, "uploadDocument", auth, 500, {}, <<>>)
    ELSE IF file.kind # "file"
    THEN Answer(req, "uploadDocument", auth, 400, {}, <<>>)
    ELSE LET documentId == GenerateId(now, nextId)
             fileName == BlobPath(auth.user, vehicleId, documentId, FileExtension(file.name))
             key == DocumentKey(auth.user, vehicleId, documentId)
         IN \E upload \in UploadOutcomes(blobs, fileName), sign \in Outcomes :
                 LET document == UploadedDocument(auth.user, vehicleId, documentId, part,
                                     file, fileName, SignedUrl(fileName, sign), now)
                 IN /\ nextId < limit
                    /\ nextId' = nextId + 1
                    /\ blobs' = IF upload = "ok" THEN blobs \cup {fileName} ELSE blobs
                    /\ kv' = kv_set(kv, key, document)
                    /\ createdBy' = kv_set(createdBy, key,
                                           Created(auth.user, documentId, vehicleId))
                    /\ UNCHANGED <<now, metadata>>
                    /\ last' = Respond(req, "uploadDocument", auth,
                                       IF upload = "ok" THEN 200 ELSE 500,
                                       {document}, <<>>, Blob(upload, sign))

\* app.post(".../vehicles/:vehicleId/documents/upload"), first registration
UploadDocument(req, limit) ==
    LET auth == Authenticate(req.header)
        vehicleId == req.path[2]
        file == req.payload.file
        part == req.payload.documentData
    IN
    IF ~auth.ok
    THEN Answer(req, "uploadDocument", auth, 401, {}, <<>>)
    ELSE IF part.kind = "malformed"            \* JSON.parse throws
    THEN Answer(req, "uploadDocument", auth, 500, {}, <<>>)
    ELSE IF file.kind # "file"
    THEN Answer(req, "uploadDocument", auth, 400, {}, <<>>)
    ELSE LET documentId == GenerateId(now, nextId)
             fileName == BlobPath(auth.user, vehicleId, documentId, FileExtension(file.name))
             key == DocumentKey(auth.user, vehicleId, documentId)
         IN \E upload \in UploadOutcomes(blobs, fileName) :
            IF upload = "error"
            THEN AnswerBlob(req, "uploadDocument", auth, 500, {}, <<>>, Blob(upload, ""))
            ELSE \E sign \in Outcomes :
                 LET document == UploadedDocument(auth.user, vehicleId, documentId, part,
                                     file, fileName, SignedUrl(fileName, sign), now)
                 IN /\ nextId < limit
                    /\ nextId' = nextId + 1
                    /\ blobs' = blobs \cup {fileName}
                    /\ kv' = kv_set(kv, key, document)
                    /\ createdBy' = kv_set(createdBy, key,
                                           Created(auth.user, documentId, vehicleId))
                    /\ UNCHANGED <<now, metadata>>
                    /\ last' = Respond(req, "uploadDocument", auth, 200, {document}, <<>>,
                                       Blob(upload, sign))

\* The record POST .../documents builds.
NewDocument(user, vehicleId, documentId, documentData, time) ==
    Spread(Spread([id |-> documentId, userId |-> user, vehicleId |-> vehicleId],
                  documentData),
           [createdAt |-> ISO(time), updatedAt |-> ISO(time)])

\* app.post("/make-server-b763bb62/vehicles/:vehicleId/documents")
AddDocument(req, limit) ==
    LET auth == Authenticate(req.header)
        vehicleId == req.path[2]
    IN
    IF ~auth.ok
    THEN Answer(req, "addDocumentMetadata", auth, 401, {}, <<>>)
    ELSE LET documentId == GenerateId(now, nextId)
             document == NewDocument(auth.user, vehicleId, documentId, req.payload, now)
             key == DocumentKey(auth.user, vehicleId, documentId)
         IN /\ nextId < limit
            /\ nextId' = nextId + 1
            /\ kv' = kv_set(kv, key, document)
            /\ createdBy' = kv_set(createdBy, key, Created(auth.user, documentId, vehicleId))
            /\ UNCHANGED <<blobs, now, metadata>>
            /\ last' = Response(req, "addDocumentMetadata", auth, 200, {document}, <<>>)

\* Faulty variant: a lookup that does not compare ids
FindAny(documents, documentId) == documents

\* documents.find(doc => doc.id === documentId): the first match in scan order,
\* which the store does not fix; any match may be the one found.
FindById(documents, documentId) == {doc \in documents : doc.id = documentId}

\* !document.filePath
HasFilePath(document) == "filePath" \in DOMAIN document /\ document.filePath # <<>>

\* app.get("/make-server-b763bb62/documents/:documentId/url"), first registration
GetSignedUrl(req) ==
    LET auth == Authenticate(req.header)
        documentId == req.path[2]
    IN
    IF ~auth.ok
    THEN Answer(req, "getSignedUrl", auth, 401, {}, <<>>)
    ELSE LET documents == kv_getByPrefix(kv, UserDocumentPrefix(auth.user))
             found == FindById(documents, documentId)
         IN IF found = {}
            THEN Answer(req, "getSignedUrl", auth, 404, {}, <<>>)
            ELSE \E document \in found :
                    IF ~HasFilePath(document)
                    THEN Answer(req, "getSignedUrl", auth, 404, {}, <<>>)
                    ELSE \E sign \in Outcomes :
                         IF sign = "error"
                         THEN AnswerBlob(req, "getSignedUrl", auth, 500, {}, <<>>,
                                         Blob("", sign))
                         ELSE AnswerBlob(req, "getSignedUrl", auth, 200, {},
                                         SignedUrl(document.filePath, sign), Blob("", sign))

-----------------------------------------------------------------------------
(* Profile handlers *)

DefaultAvatar == "https://images.unsplash.com/photo-1494790108755-2616b612b11c"
Email(u) == <<u, "@", "example.com">>

\* Faulty variant: the identity's fields win over the overlay's
MergedProfileIdentityFirst(user, userMetadata, userProfile) ==
    LET overlay == IF userProfile = {} THEN NoPayload
                   ELSE CHOOSE profile \in userProfile : TRUE
    IN Spread(overlay,
              [id |-> user, email |-> Email(user),
               name |-> IF "name" \in DOMAIN userMetadata /\ userMetadata.name # ""
                        THEN userMetadata.name ELSE "User",
               avatar |-> IF "avatar" \in DOMAIN overlay /\ overlay.avatar # ""
                          THEN overlay.avatar ELSE DefaultAvatar])

\* The `user` object GET /profile returns: identity fields, then ...userProfile.
MergedProfile(user, userMetadata, userProfile) ==
    LET overlay == IF userProfile = {} THEN NoPayload
                   ELSE CHOOSE profile \in userProfile : TRUE
    IN Spread([id |-> user, email |-> Email(user),
               name |-> IF "name" \in DOMAIN userMetadata /\ userMetadata.name # ""
                        THEN userMetadata.name ELSE "User",
               avatar |-> IF "avatar" \in DOMAIN overlay /\ overlay.avatar # ""
                          THEN overlay.avatar ELSE DefaultAvatar],
              overlay)

\* app.get("/make-server-b763bb62/profile")
GetProfile(req) ==
    LET auth == AuthenticateProfile(req.header) IN
    IF ~auth.ok
    THEN Answer(req, "getProfile", auth, 401, {}, <<>>)
    ELSE Answer(req, "getProfile", auth, 200,
                {MergedProfile(auth.user, metadata[auth.user],
                               kv_get(kv, ProfileKey(auth.user)))}, <<>>)

\* app.put("/make-server-b763bb62/profile")
UpdateProfile(req) ==
    LET auth == Authenticate(req.header)
        profileData == req.payload
    IN
    IF ~auth.ok
    THEN Answer(req, "updateProfile", auth, 401, {}, <<>>)
    ELSE \E update \in Outcomes :       \* supabase.auth.admin.updateUserById
         IF update = "error"
         THEN Answer(req, "updateProfile", auth, 500, {}, <<>>)
         ELSE /\ metadata' = [metadata EXCEPT ![auth.user] = Spread(@, profileData)]
              /\ kv' = kv_set(kv, ProfileKey(auth.user),
                              Spread(profileData, [updatedAt |-> ISO(now)]))
              /\ UNCHANGED <<blobs, now, nextId, createdBy>>
              /\ last' = Response(req, "updateProfile", auth, 200, {profileData}, <<>>)

-----------------------------------------------------------------------------
(* History and stats *)

\* x.<field>, "undefined" when absent
Get(x, f) == IF f \in DOMAIN x THEN x[f] ELSE "undefined"

\* vehicle.<item>?.date, truthy
HasDate(vehicle, item) ==
    /\ item \in DOMAIN vehicle
    /\ "date" \in DOMAIN vehicle[item]
    /\ vehicle[item].date # <<>>

VehicleEvent(vehicle) ==
    [id |-> <<"vehicle", "_">> \o vehicle.id, date |-> vehicle.createdAt,
     type |-> "vehicle", vehicleId |-> vehicle.id,
     vehicleName |-> Get(vehicle, "name"), vehiclePlate |-> Get(vehicle, "plate"),
     status |-> "undefined"]

ItemEvent(vehicle, item) ==
    [id |-> <<item, "_">> \o vehicle.id, date |-> vehicle[item].date,
     type |-> item, vehicleId |-> vehicle.id,
     vehicleName |-> Get(vehicle, "name"), vehiclePlate |-> Get(vehicle, "plate"),
     status |-> Get(vehicle[item], "status")]

\* Faulty variant: no event for the inspection
VehicleEventsWithoutInspection(vehicle) ==
    <<VehicleEvent(vehicle)>>
     \o (IF HasDate(vehicle, "insurance") THEN <<ItemEvent(vehicle, "insurance")>> ELSE <<>>)
     \o (IF HasDate(vehicle, "taxes") THEN <<ItemEvent(vehicle, "taxes")>> ELSE <<>>)

\* The events one vehicle pushes, in the order the handler pushes them.
VehicleEvents(vehicle) ==
    <<VehicleEvent(vehicle)>>
     \o (IF HasDate(vehicle, "insurance") THEN <<ItemEvent(vehicle, "insurance")>> ELSE <<>>)
     \o (IF HasDate(vehicle, "inspection") THEN <<ItemEvent(vehicle, "inspection")>> ELSE <<>>)
     \o (IF HasDate(vehicle, "taxes") THEN <<ItemEvent(vehicle, "taxes")>> ELSE <<>>)

\* Faulty variant: the vehicle's name and plate are read without a fallback
DocumentEventOfVehicle(document, vehicles) ==
    LET matching == {i \in DOMAIN vehicles : vehicles[i].id = document.vehicleId}
        first == IF matching = {} THEN NoPayload
                 ELSE vehicles[CHOOSE i \in matching : \A j \in matching : i <= j]
    IN [id |-> <<"document", "_">> \o document.id, date |-> document.createdAt,
        type |-> "document", vehicleId |-> document.vehicleId,
        vehicleName |-> Get(first, "name"), vehiclePlate |-> Get(first, "plate"),
        status |-> "undefined"]

\* vehicles.find(v => v.id === document.vehicleId); vehicle?.name || 'Viatura'
DocumentEvent(document, vehicles) ==
    LET matching == {i \in DOMAIN vehicles : vehicles[i].id = document.vehicleId}
        first == IF matching = {} THEN NoPayload
                 ELSE vehicles[CHOOSE i \in matching : \A j \in matching : i <= j]
    IN [id |-> <<"document", "_">> \o document.id, date |-> document.createdAt,
        type |-> "document", vehicleId |-> document.vehicleId,
        vehicleName |-> IF "name" \in DOMAIN first /\ first.name # ""
                        THEN first.name ELSE "Viatura",
        vehiclePlate |-> IF "plate" \in DOMAIN first THEN first.plate ELSE "",
        status |-> "undefined"]

RECURSIVE FlatMapVehicles(_)
FlatMapVehicles(vehicles) ==
    IF vehicles = <<>> THEN <<>>
    ELSE VehicleEvents(Head(vehicles)) \o FlatMapVehicles(Tail(vehicles))

\* historyItems before the sort.
HistoryItems(vehicles, allDocuments) ==
    FlatMapVehicles(vehicles)
     \o [i \in DOMAIN allDocuments |-> DocumentEvent(allDocuments[i], vehicles)]

\* Insert x after every item that does not sort after it: a stable sort.
RECURSIVE InsertByDate(_, _)
InsertByDate(sorted, x) ==
    IF sorted = <<>> THEN <<x>>
    ELSE IF GetTime(x.date) - GetTime(Head(sorted).date) > 0    \* comparator(head, x) > 0
    THEN <<x>> \o sorted
    ELSE <<Head(sorted)>> \o InsertByDate(Tail(sorted), x)

\* Faulty variant: the items are left in insertion order
Unsorted(items) == items

\* historyItems.sort((a, b) => new Date(b.date).getTime() - new Date(a.date).getTime())
RECURSIVE SortByDateDesc(_)
SortByDateDesc(items) ==
    IF items = <<>> THEN <<>>
    ELSE InsertByDate(SortByDateDesc(SubSeq(items, 1, Len(items) - 1)), items[Len(items)])

\* The orders in which a prefix scan may visit a set of keys: any order.
Orders(keys) ==
    {order \in [1..Cardinality(keys) -> keys] :
        \A k \in keys : \E i \in DOMAIN order : order[i] = k}

\* The arrays kv.getByPrefix may return: one value per matching key.
Arrays(store, prefix) ==
    {[i \in DOMAIN order |-> store[order[i]]] : order \in Orders(ScanKeys(store, prefix))}

\* app.get("/make-server-b763bb62/history")
History(req) ==
    LET auth == Authenticate(req.header) IN
    IF ~auth.ok
    THEN Answer(req, "history", auth, 401, {}, <<>>)
    ELSE \E vehicles \in Arrays(kv, VehiclePrefix(auth.user)),
            allDocuments \in Arrays(kv, UserDocumentPrefix(auth.user)) :
            Answer(req, "history", auth, 200,
                   {[history |-> SortByDateDesc(HistoryItems(vehicles, allDocuments)),
                     \* not in the response: the arrays the scans returned
                     vehicles |-> vehicles, allDocuments |-> allDocuments]}, <<>>)

\* Faulty variant: each item's status is derived from its date when counted
CountStatusAsOfNow(vehicles, status) ==
    Cardinality({<<i, item>> \in (DOMAIN vehicles) \X Items :
                    /\ item \in DOMAIN vehicles[i]
                    /\ "status" \in DOMAIN vehicles[i][item]
                    /\ getStatusFromDate(Get(vehicles[i][item], "date"), now) = status})

\* Faulty variant: counts the vehicles that have an item of the status
CountVehiclesWithStatus(vehicles, status) ==
    Cardinality({i \in DOMAIN vehicles :
                    \E item \in Items : item \in DOMAIN vehicles[i]
                                         /\ Get(vehicles[i][item], "status") = status})

\* The value of a counter after the forEach loops: one increment per
\* (vehicle, item) pair whose item has the status.
CountStatus(vehicles, status) ==
    Cardinality({<<i, item>> \in (DOMAIN vehicles) \X Items :
                    item \in DOMAIN vehicles[i]
                        /\ Get(vehicles[i][item], "status") = status})

\* app.get("/make-server-b763bb62/stats")
Stats(req) ==
    LET auth == Authenticate(req.header) IN
    IF ~auth.ok
    THEN Answer(req, "stats", auth, 401, {}, <<>>)
    ELSE \E vehicles \in Arrays(kv, VehiclePrefix(auth.user)),
            documents \in Arrays(kv, UserDocumentPrefix(auth.user)) :
            Answer(req, "stats", auth, 200,
                   {[totalVehicles |-> Len(vehicles),
                     totalDocuments |-> Len(documents),
                     expiredItems |-> CountStatus(vehicles, "expired"),
                     expiringItems |-> CountStatus(vehicles, "warning"),
                     validItems |-> CountStatus(vehicles, "valid")]}, <<>>)

\* No route matches: the framework's 404.
NotFound(req) == Answer(req, "notFound", Anonymous, 404, {}, <<>>)

\* `${user.id}/${vehicleId}/${Date.now()}_${file.name}`
BlobPath2(user, vehicleId, time, name) ==
    <<user, "/">> \o vehicleId \o <<"/", ToString(time), "_">> \o name

\* crypto.randomUUID()
RandomUUID(n) == <<"uuid", ToString(n)>>

\* documentData.<field>, undefined when absent
Field(data, f) == IF f \in DOMAIN data THEN data[f] ELSE "undefined"

\* The record the second upload handler builds.
UploadedDocument2(vehicleId, documentId, documentData, file, path, time) ==
    [id |-> documentId, vehicleId |-> vehicleId,
     type |-> Field(documentData, "type"), name |-> Field(documentData, "name"),
     description |-> IF "description" \in DOMAIN documentData
                     THEN documentData.description ELSE "",
     expiryDate |-> IF "expiryDate" \in DOMAIN documentData
                    THEN documentData.expiryDate ELSE <<>>,
     filePath |-> path, fileName |-> file.name, fileType |-> file.type,
     fileSize |-> file.size, createdAt |-> ISO(time), updatedAt |-> ISO(time)]

\* app.post(".../vehicles/:vehicleId/documents/upload"), second registration
UploadDocument2(req, limit) ==
    LET auth == Authenticate(req.header)
        vehicleId == req.path[2]
        file == req.payload.file
        part == req.payload.documentData
    IN
    IF ~auth.ok
    THEN Answer(req, "uploadDocument2", auth, 401, {}, <<>>)
    ELSE IF kv_get(kv, VehicleKey(auth.user, vehicleId)) = {}
    THEN Answer(req, "uploadDocument2", auth, 404, {}, <<>>)
    ELSE IF file.kind # "file" \/ part.kind = "missing"
    THEN Answer(req, "uploadDocument2", auth, 400, {}, <<>>)
    ELSE IF part.kind = "malformed"            \* JSON.parse throws
    THEN Answer(req, "uploadDocument2", auth, 500, {}, <<>>)
    ELSE LET fileName == BlobPath2(auth.user, vehicleId, now, file.name)
             documentId == RandomUUID(nextId)
             document == UploadedDocument2(vehicleId, documentId, part.value, file,
                                           fileName, now)
             key == UserDocumentPrefix(auth.user) \o documentId
         IN \E upload \in UploadOutcomes(blobs, fileName) :
            IF upload = "error"
            THEN AnswerBlob(req, "uploadDocument2", auth, 500, {}, <<>>, Blob(upload, ""))
            ELSE /\ nextId < limit
                 /\ nextId' = nextId + 1
                 /\ blobs' = blobs \cup {fileName}
                 /\ kv' = kv_set(kv, key, document)
                 /\ createdBy' = kv_set(createdBy, key,
                                        Created(auth.user, documentId, vehicleId))
                 /\ UNCHANGED <<now, metadata>>
                 /\ last' = Respond(req, "uploadDocument2", auth, 200, {document}, <<>>,
                                    Blob(upload, ""))

\* app.get("/make-server-b763bb62/documents/:documentId/url"), second registration
GetSignedUrl2(req) ==
    LET auth == Authenticate(req.header)
        documentId == req.path[2]
    IN
    IF ~auth.ok
    THEN Answer(req, "getSignedUrl2", auth, 401, {}, <<>>)
    ELSE LET found == kv_get(kv, UserDocumentPrefix(auth.user) \o documentId)
         IN IF found = {} \/ \E document \in found : ~HasFilePath(document)
            THEN Answer(req, "getSignedUrl2", auth, 404, {}, <<>>)
            ELSE \E document \in found, sign \in Outcomes :
                    IF sign = "error"
                    THEN AnswerBlob(req, "getSignedUrl2", auth, 500, {}, <<>>, Blob("", sign))
                    ELSE AnswerBlob(req, "getSignedUrl2", auth, 200, {},
                                    SignedUrl(document.filePath, sign), Blob("", sign))

-----------------------------------------------------------------------------
(* The app: a request is served by the handler its route selects *)

Serve(req, limit) ==
    LET handler == Dispatch(req.method, req.path) IN
    /\ last = Idle
    /\ UNCHANGED <<inflight, derived, login, app, notifications>>
    /\ CASE handler = "listVehicles" -> ListVehicles(req)
         [] handler = "createVehicle" -> CreateVehicle(req, limit)
         [] handler = "updateVehicle" -> UpdateVehicle(req)
         [] handler = "deleteVehicle" -> DeleteVehicle(req)
         [] handler = "listDocuments" -> ListDocuments(req)
         [] handler = "uploadDocument" -> UploadDocument(req, limit)
         [] handler = "addDocumentMetadata" -> AddDocument(req, limit)
         [] handler = "getSignedUrl" -> GetSignedUrl(req)
         [] handler = "getProfile" -> GetProfile(req)
         [] handler = "updateProfile" -> UpdateProfile(req)
         [] handler = "history" -> History(req)
         [] handler = "stats" -> Stats(req)
         [] handler = "uploadDocument2" -> UploadDocument2(req, limit)
         [] handler = "getSignedUrl2" -> GetSignedUrl2(req)
         [] OTHER -> NotFound(req)

-----------------------------------------------------------------------------
(* Two PUT /vehicles/:vehicleId requests served at once: each awaits kv.get,
   builds its record, and awaits kv.set; the other may run at either await *)

Processes == {1, 2}

NotStarted == [pc |-> "idle"]

\* A partial payload that names what GolfPayload does not.
PlatePayload == [plate |-> "AA-00-AA"]

\* An answer given without a write.
Finished(req, auth, status) ==
    [pc |-> "done", req |-> req, user |-> auth.user, status |-> status]

\* The handler up to `await kv.set`: authentication, kv.get, the 404, the merge.
UpdateVehicleGet(p, headers, payloads) ==
    /\ inflight[p].pc = "idle"
    /\ \E h \in headers, id \in VehiclePathIds, vehicleData \in payloads :
          LET req == Request("PUT", <<Lit("vehicles"), id>>, h, vehicleData)
              auth == Authenticate(h)
              key == VehicleKey(auth.user, id)
          IN inflight' = [inflight EXCEPT ![p] =
                 IF ~auth.ok THEN Finished(req, auth, 401)
                 ELSE IF kv_get(kv, key) = {} THEN Finished(req, auth, 404)
                 ELSE [pc |-> "set", req |-> req, user |-> auth.user, key |-> key,
                       existingVehicle |-> kv[key],
                       updatedVehicle |-> UpdatedVehicle(kv[key], vehicleData, now)]]
    /\ UNCHANGED <<kv, blobs, now, nextId, metadata, createdBy, last, derived, login, app, notifications>>

\* Faulty variant: the merge is made onto the record stored when the set runs
UpdateVehicleSetOntoStored(p) ==
    /\ inflight[p].pc = "set"
    /\ inflight[p].key \in DOMAIN kv
    /\ kv' = kv_set(kv, inflight[p].key,
                    UpdatedVehicle(kv[inflight[p].key], inflight[p].req.payload,
                                   GetTime(inflight[p].updatedVehicle.updatedAt)))
    /\ inflight' = [inflight EXCEPT ![p] =
                       [@ EXCEPT !.pc = "done"] @@ [status |-> 200]]
    /\ UNCHANGED <<blobs, now, nextId, metadata, createdBy, last, derived, login, app, notifications>>

\* From `await kv.set` on: the record built from what was read is stored, and
\* the request is answered with it.
UpdateVehicleSet(p) ==
    /\ inflight[p].pc = "set"
    /\ kv' = kv_set(kv, inflight[p].key, inflight[p].updatedVehicle)
    /\ inflight' = [inflight EXCEPT ![p] =
                       [@ EXCEPT !.pc = "done"] @@ [status |-> 200]]
    /\ UNCHANGED <<blobs, now, nextId, metadata, createdBy, last, derived, login, app, notifications>>

-----------------------------------------------------------------------------
(* The vehicle form deriving a status from a date *)

Dates == {<<>>} \cup {<<d>> : d \in -2..MaxDate}

\* handleSubmit: status: getStatusFromDate(formData.<item>.date)
DeriveStatus ==
    /\ "status" \notin DOMAIN derived
    /\ derived' = derived @@ [status |-> getStatusFromDate(derived.date, now)]
    /\ UNCHANGED <<kv, blobs, now, nextId, metadata, createdBy, last, inflight, login, app, notifications>>

-----------------------------------------------------------------------------
(* LoginScreen: handleLogin and handleSignUp *)

maxAttempts == 3

\* The component as mounted: useState('') and useState(false) throughout.
\* pc, attempts, fetched, onLoginCalls and signedIn follow one handler call.
LoginScreen ==
    [email |-> "", password |-> "", name |-> "", isSignUp |-> FALSE,
     isLoading |-> FALSE, error |-> "",
     pc |-> "idle", attempts |-> 0, fetched |-> <<>>, onLoginCalls |-> 0,
     signedIn |-> FALSE]

\* What apiRequest('/profile') can do: return the parsed body, or throw.
ProfileOutcomes ==
    {"ok", "No valid session found", "Invalid access token", "Request failed"}

\* What signInWithPassword can do: a session, an authError, or a throw.
SignInOutcomes == {"ok", "Invalid login credentials", "throws"}

\* What the POST /signup fetch can do.
SignUpOutcomes == {"ok", "not ok", "throws"}

\* catch (err) { setError(...) } finally { setIsLoading(false) }
Caught(state, message) ==
    [state EXCEPT !.error = message, !.isLoading = FALSE, !.pc = "done"]

\* The user types into the form and toggles between sign-in and sign-up; the
\* button is disabled while isLoading
EditForm ==
    /\ login.pc \in {"idle", "done"}
    /\ \E email \in {"", "a@b"}, password \in {"", "secret"}, name \in {"", "Ana"},
          isSignUp \in BOOLEAN :
          login' = [login EXCEPT !.email = email, !.password = password,
                                 !.name = name, !.isSignUp = isSignUp]
    /\ UNCHANGED <<server, app, notifications>>

\* onClick={isSignUp ? handleSignUp : handleLogin}, up to the first await
Submit ==
    /\ login.pc \in {"idle", "done"}
    /\ ~login.isLoading
    /\ LET called == [login EXCEPT !.attempts = 0, !.fetched = <<>>,
                                    !.onLoginCalls = 0, !.signedIn = FALSE]
           missing == \/ login.email = ""
                      \/ login.password = ""
                      \/ login.isSignUp /\ login.name = ""
       IN login' = IF missing
                   THEN [called EXCEPT !.error = "Por favor preencha todos os campos", !.pc = "done"]
                   ELSE [called EXCEPT !.isLoading = TRUE, !.error = "",
                                       !.pc = IF login.isSignUp THEN "signup"
                                              ELSE "signin"]
    /\ UNCHANGED <<server, app, notifications>>

\* handleSignUp: the signup fetch answers
SignUpResponse ==
    /\ login.pc = "signup"
    /\ \E outcome \in SignUpOutcomes :
          login' = IF outcome = "ok" THEN [login EXCEPT !.pc = "signin"]
                   ELSE Caught(login, "Falha ao criar conta")
    /\ UNCHANGED <<server, app, notifications>>

\* signInWithPassword answers
SignIn ==
    /\ login.pc = "signin"
    /\ \E outcome \in SignInOutcomes :
          login' = IF outcome = "ok"
                   THEN [login EXCEPT !.signedIn = TRUE, !.pc = "fetch"]
                   ELSE IF outcome = "throws"
                   THEN Caught(login, IF login.isSignUp THEN "Falha ao criar conta"
                                      ELSE "Falha ao fazer login")
                   ELSE Caught(login, outcome)
    /\ UNCHANGED <<server, app, notifications>>

\* Faulty variant: the loop gives up one failure later
FetchProfileOnceMore ==
    /\ login.pc = "fetch"
    /\ \E outcome \in ProfileOutcomes :
          LET fetched == Append(login.fetched, outcome) IN
          login' =
             IF outcome = "ok"
             THEN [login EXCEPT !.fetched = fetched, !.onLoginCalls = @ + 1,
                                !.isLoading = FALSE, !.pc = "done"]
             ELSE IF login.attempts + 1 = maxAttempts + 1
             THEN Caught([login EXCEPT !.fetched = fetched, !.attempts = @ + 1], outcome)
             ELSE [login EXCEPT !.fetched = fetched, !.attempts = @ + 1]
    /\ UNCHANGED <<server, app, notifications>>

\* One turn of `while (attempts < maxAttempts)`: apiRequest('/profile')
\* returns, and onLogin is called, or it throws, and the loop goes on or
\* rethrows.
FetchProfile ==
    /\ login.pc = "fetch"
    /\ login.attempts < maxAttempts
    /\ \E outcome \in ProfileOutcomes :
          LET fetched == Append(login.fetched, outcome) IN
          login' =
             IF outcome = "ok"
             THEN [login EXCEPT !.fetched = fetched, !.onLoginCalls = @ + 1,
                                !.isLoading = FALSE, !.pc = "done"]
             ELSE IF login.attempts + 1 = maxAttempts
             THEN Caught([login EXCEPT !.fetched = fetched, !.attempts = @ + 1], outcome)
             ELSE [login EXCEPT !.fetched = fetched, !.attempts = @ + 1]
    /\ UNCHANGED <<server, app, notifications>>

-----------------------------------------------------------------------------
(* App: checkSession, handleLogin, handleLogout, navigateToScreen *)

\* The component as mounted; user is a set, empty for null.  pc is the await
\* checkSession stands at, session whether the auth client holds a session,
\* logout how the last handleLogout ended.
App ==
    [currentScreen |-> "login", user |-> {}, isLoading |-> TRUE,
     pc |-> "getSession", session |-> FALSE, logout |-> "none"]

\* The { name, avatar } a profile answer may carry.
ProfileUsers == {[name |-> u, avatar |-> a] : u \in Users, a \in {DefaultAvatar, "me.png"}}

\* What the component renders.
Rendered ==
    IF app.isLoading THEN "loading"
    ELSE IF app.currentScreen = "login" THEN "login"
    ELSE IF app.user # {} THEN app.currentScreen
    ELSE "nothing"

\* checkSession, from one await to the next.  Every awaited call can answer,
\* answer with an error, or throw.
CheckSession ==
    /\ app.pc # "done"
    /\ \E outcome \in {"ok", "error", "throws"}, userData \in ProfileUsers, stored \in BOOLEAN :
          LET shown == [app EXCEPT !.user = {userData},
                                   !.currentScreen = "dashboard",
                                   !.isLoading = FALSE, !.pc = "done"]
              cleared == [app EXCEPT !.user = {}, !.currentScreen = "login",
                                     !.session = FALSE,
                                     !.isLoading = FALSE, !.pc = "done"]
          IN app' =
             CASE app.pc = "getSession" ->
                    \* the session the browser kept from an earlier visit, if any
                    IF outcome = "throws" THEN [app EXCEPT !.session = stored, !.pc = "signOut2"]
                    ELSE IF outcome = "ok" /\ stored
                    THEN [app EXCEPT !.session = TRUE, !.pc = "profile"]
                    ELSE [app EXCEPT !.session = stored, !.currentScreen = "login",
                                     !.isLoading = FALSE, !.pc = "done"]
               [] app.pc = "profile" ->
                    IF outcome = "ok" THEN shown ELSE [app EXCEPT !.pc = "refresh"]
               [] app.pc = "refresh" ->
                    IF outcome = "ok" THEN [app EXCEPT !.pc = "profile2"]
                    ELSE [app EXCEPT !.pc = "signOut1"]
               [] app.pc = "profile2" ->
                    IF outcome = "ok" THEN shown ELSE [app EXCEPT !.pc = "signOut1"]
               [] app.pc = "signOut1" ->
                    IF outcome = "throws" THEN [app EXCEPT !.pc = "signOut2"]
                    ELSE IF outcome = "ok" THEN cleared
                    ELSE [cleared EXCEPT !.session = app.session]
               [] app.pc = "signOut2" ->
                    \* a throw here leaves the catch block; finally still runs
                    IF outcome = "throws" THEN [app EXCEPT !.isLoading = FALSE, !.pc = "done"]
                    ELSE IF outcome = "ok" THEN cleared
                    ELSE [cleared EXCEPT !.session = app.session]
    /\ UNCHANGED <<server, login, notifications>>

\* handleLogin, which LoginScreen calls as onLogin with the profile it
\* fetched; LoginScreen is unmounted by the change of screen
HandleLogin ==
    /\ Rendered = "login"
    /\ login.onLoginCalls = 1
    /\ \E userData \in ProfileUsers :
          app' = [app EXCEPT !.user = {userData},
                             !.currentScreen = "dashboard", !.session = TRUE]
    /\ login' = LoginScreen
    /\ UNCHANGED <<server, notifications>>

\* navigateToScreen, which the screens call as onNavigate
NavigateToScreen ==
    /\ Rendered \in {"dashboard", "history", "profile", "payments"}
    /\ \E screen \in {"dashboard", "history", "profile", "payments"} :
          app' = [app EXCEPT !.currentScreen = screen]
    /\ UNCHANGED <<server, login, notifications>>

\* handleLogout, which the screens call as onLogout: await signOut(), then
\* setUser(null) and setCurrentScreen('login'); nothing catches a throw
HandleLogout ==
    /\ Rendered \in {"dashboard", "history", "profile", "payments"}
    /\ \E outcome \in {"ok", "error", "throws"} :
          app' = IF outcome = "throws" THEN [app EXCEPT !.logout = "threw"]
                 ELSE [app EXCEPT !.user = {}, !.currentScreen = "login",
                                  !.session = IF outcome = "ok" THEN FALSE ELSE @,
                                  !.logout = "done"]
    /\ UNCHANGED <<server, login, notifications>>

-----------------------------------------------------------------------------
(* DashboardScreen: loadNotifications and checkExpiringItems *)

\* The client reads its clock to a fraction of a day: 1000 * 60 * 60 * 24 ms
\* are TicksPerDay ticks.  A stored date parses to the start of its day.
TicksPerDay == 2

\* The screen before any load.
DashboardScreen == [user |-> "", vehicles |-> <<>>, at |-> 0, items |-> <<>>]

\* daysUntilExpiry <= 7 (insurance), <= 14 (inspection), <= 30 (taxes)
Window(item) ==
    CASE item = "insurance" -> 7
      [] item = "inspection" -> 14
      [] item = "taxes" -> 30

\* Faulty variant: the quotient is rounded toward zero
DaysUntilExpiryTruncated(date, at) ==
    LET diff == GetTime(date) * TicksPerDay - at IN
    IF diff >= 0 THEN diff \div TicksPerDay ELSE -((-diff) \div TicksPerDay)

\* Math.floor((new Date(date).getTime() - new Date().getTime()) / (1000*60*60*24))
DaysUntilExpiry(date, at) == (GetTime(date) * TicksPerDay - at) \div TicksPerDay

\* What one `if (vehicle.<item>?.date) { ... }` block pushes.
ItemNotifications(vehicle, item, at) ==
    IF ~HasDate(vehicle, item) THEN <<>>
    ELSE LET daysUntilExpiry == DaysUntilExpiry(vehicle[item].date, at)
             notification == [id |-> <<item, "_">> \o vehicle.id, icon |-> item,
                              vehicleName |-> Get(vehicle, "name"),
                              days |-> daysUntilExpiry, type |-> "warning"]
         IN IF daysUntilExpiry <= Window(item) /\ daysUntilExpiry >= 0
            THEN <<notification>>
            ELSE IF daysUntilExpiry < 0
            THEN <<[notification EXCEPT !.type = "error"]>>
            ELSE <<>>

\* vehicles.forEach(...): newNotifications in push order.
RECURSIVE NewNotifications(_, _)
NewNotifications(vehicles, at) ==
    IF vehicles = <<>> THEN <<>>
    ELSE ItemNotifications(Head(vehicles), "insurance", at)
          \o ItemNotifications(Head(vehicles), "inspection", at)
          \o ItemNotifications(Head(vehicles), "taxes", at)
          \o NewNotifications(Tail(vehicles), at)

\* loadNotifications: GET /vehicles answers with the user's vehicles, and the
\* notifications are built from them at the client's clock.
LoadNotifications(users) ==
    /\ last = Idle
    /\ \E u \in users, part \in 0..(TicksPerDay - 1) :
       \E vehicles \in Arrays(kv, VehiclePrefix(u)) :
          LET at == now * TicksPerDay + part IN
          notifications' = [user |-> u, vehicles |-> vehicles, at |-> at,
                            items |-> NewNotifications(vehicles, at)]
    /\ UNCHANGED <<server, login, app>>

-----------------------------------------------------------------------------
(* The state machine *)

Init ==
    /\ kv = EmptyStore
    /\ blobs = {}
    /\ now = 0
    /\ nextId = 0
    /\ metadata = [u \in Users |-> [name |-> u]]   \* signup: user_metadata: { name }
    /\ createdBy = EmptyStore
    /\ last = Idle
    /\ inflight = [p \in Processes |-> NotStarted]
    /\ derived = NoPayload
    /\ login = LoginScreen
    /\ app = App
    /\ notifications = DashboardScreen

\* Time passes between requests.
Tick ==
    /\ last = Idle
    /\ now < MaxTime
    /\ now' = now + 1
    /\ UNCHANGED <<kv, blobs, nextId, metadata, createdBy, last, inflight, derived, login, app, notifications>>

\* The response leaves the server; the next request may arrive.
Deliver ==
    /\ last # Idle
    /\ last' = Idle
    /\ UNCHANGED <<kv, blobs, now, nextId, metadata, createdBy, inflight, derived, login, app, notifications>>

ListVehiclesRequest(headers) ==
    \E h \in headers :
        Serve(Request("GET", <<Lit("vehicles")>>, h, NoPayload), 0)

CreateVehicleRequest(headers, payloads, limit) ==
    \E h \in headers, p \in payloads :
        Serve(Request("POST", <<Lit("vehicles")>>, h, p), limit)

UpdateVehicleRequest(headers, payloads) ==
    \E h \in headers, id \in VehiclePathIds, p \in payloads :
        Serve(Request("PUT", <<Lit("vehicles"), id>>, h, p), 0)

DeleteVehicleRequest(headers) ==
    \E h \in headers, id \in VehiclePathIds :
        Serve(Request("DELETE", <<Lit("vehicles"), id>>, h, NoPayload), 0)

ListDocumentsRequest(headers) ==
    \E h \in headers, id \in VehiclePathIds :
        Serve(Request("GET", <<Lit("vehicles"), id, Lit("documents")>>, h, NoPayload), 0)

\* A request that names only the timestamp part of a vehicle id.
ListDocumentsOfStampRequest(headers) ==
    \E h \in headers, id \in VehiclePathIds :
        Serve(Request("GET", <<Lit("vehicles"), <<Head(id)>>, Lit("documents")>>, h,
                      NoPayload), 0)

AddDocumentRequest(headers, limit) ==
    \E h \in headers, id \in VehiclePathIds, p \in {PolicyDocument} \cup CopiedDocuments :
        Serve(Request("POST", <<Lit("vehicles"), id, Lit("documents")>>, h, p), limit)

UploadDocumentRequest(headers, limit) ==
    \E h \in headers, id \in VehiclePathIds, file \in {NoPart, PdfFile},
       part \in {NoPart, MalformedPart, JsonPart(PolicyDocument)} :
        Serve(Request("POST", <<Lit("vehicles"), id, Lit("documents"), Lit("upload")>>, h,
                      [file |-> file, documentData |-> part]), limit)

SignedUrlRequest(headers) ==
    \E h \in headers, id \in DocumentPathIds :
        Serve(Request("GET", <<Lit("documents"), id, Lit("url")>>, h, NoPayload), 0)

\* The client's DocumentManager.handleDeleteDocument
DeleteDocumentRequest(headers) ==
    \E h \in headers, k \in DocumentKeys(createdBy) :
        Serve(Request("DELETE", <<Lit("vehicles"), createdBy[k].vehicleId,
                                  Lit("documents"), createdBy[k].id>>, h, NoPayload), 0)

GetProfileRequest(headers) ==
    \E h \in headers : Serve(Request("GET", <<Lit("profile")>>, h, NoPayload), 0)

UpdateProfileRequest(headers, payloads) ==
    \E h \in headers, p \in payloads :
        Serve(Request("PUT", <<Lit("profile")>>, h, p), 0)

HistoryRequest(headers) ==
    \E h \in headers : Serve(Request("GET", <<Lit("history")>>, h, NoPayload), 0)

StatsRequest(headers) ==
    \E h \in headers : Serve(Request("GET", <<Lit("stats")>>, h, NoPayload), 0)

Session(users) == {<<"Bearer", Token(u)>> : u \in users}

\* Vehicle CRUD by two users, as time passes.
NextVehicles ==
    \/ Tick
    \/ Deliver
    \/ ListVehiclesRequest(Session(Users))
    \/ CreateVehicleRequest(Session(Users), VehiclePayloads, MaxVehicleIds)
    \/ UpdateVehicleRequest(Session(Users), VehiclePayloads)
    \/ DeleteVehicleRequest(Session(Users))

SpecVehicles == Init /\ [][NextVehicles]_vars

\* Vehicles and their documents, by two users.
Next ==
    \/ Deliver
    \/ ListVehiclesRequest(Session(Users))
    \/ CreateVehicleRequest(Session(Users), {CivicPayload}, MaxIds)
    \/ DeleteVehicleRequest(Session(Users))
    \/ ListDocumentsRequest(Session(Users))
    \/ AddDocumentRequest(Session(Users), MaxIds)
    \/ UploadDocumentRequest(Session(Users), MaxIds)
    \/ SignedUrlRequest(Session(Users))
    \/ DeleteDocumentRequest(Session(Users))

Spec == Init /\ [][Next]_vars

\* Cross-user references: what one user stores, the other names in a request.
NextCrossUser ==
    \/ Deliver
    \/ CreateVehicleRequest(Session(Users), {CivicPayload}, MaxIds)
    \/ UpdateVehicleRequest(Session(Users), {GolfPayload})
    \/ DeleteVehicleRequest(Session(Users))
    \/ AddDocumentRequest(Session(Users), MaxIds)
    \/ UploadDocumentRequest(Session(Users), MaxIds)
    \/ SignedUrlRequest(Session(Users))

SpecCrossUser == Init /\ [][NextCrossUser]_vars

\* Vehicles, their documents and the dashboard's counters.
NextStats ==
    \/ Deliver
    \/ CreateVehicleRequest(Session(Users), {PoloPayload, StampedPayload}, MaxIds)
    \/ DeleteVehicleRequest(Session(Users))
    \/ AddDocumentRequest(Session(Users), MaxIds)
    \/ UploadDocumentRequest(Session(Users), MaxIds)
    \/ ListDocumentsRequest(Session(Users))
    \/ StatsRequest(Session(Users))

SpecStats == Init /\ [][NextStats]_vars

\* Vehicles and documents created over time, and the history screen.
NextHistory ==
    \/ Tick
    \/ Deliver
    \/ CreateVehicleRequest(Session(Users), {CivicPayload, GolfPayload}, MaxIds)
    \/ AddDocumentRequest(Session(Users), MaxIds)
    \/ HistoryRequest(Session(Users))

SpecHistory == Init /\ [][NextHistory]_vars

\* Documents that outlive their vehicle, and the history screen.
NextOrphans ==
    \/ Deliver
    \/ CreateVehicleRequest(Session({"A"}), {PoloPayload, GolfPayload}, MaxIds + 1)
    \/ DeleteVehicleRequest(Session({"A"}))
    \/ AddDocumentRequest(Session({"A"}), MaxIds + 1)
    \/ HistoryRequest(Session({"A"}))

SpecOrphans == Init /\ [][NextOrphans]_vars

\* Documents listed by vehicle id, whole or in part.
NextPrefix ==
    \/ Deliver
    \/ CreateVehicleRequest(Session({"A"}), {PoloPayload}, MaxIds + 1)
    \/ AddDocumentRequest(Session({"A"}), MaxIds + 1)
    \/ ListDocumentsRequest(Session({"A"}))
    \/ ListDocumentsOfStampRequest(Session({"A"}))

SpecPrefix == Init /\ [][NextPrefix]_vars

\* The profile screen: read the profile, save one field.
NextProfile ==
    \/ Deliver
    \/ GetProfileRequest(Session(Users))
    \/ UpdateProfileRequest(Session(Users), ProfilePayloads)

SpecProfile == Init /\ [][NextProfile]_vars

\* Two updates of one vehicle served at once.
NextRace ==
    \/ Tick
    \/ Deliver
    \/ CreateVehicleRequest(Session({"A"}), {CivicPayload}, MaxVehicleIds)
    \/ \E p \in Processes : UpdateVehicleGet(p, Session({"A"}), {GolfPayload, PlatePayload})
    \/ \E p \in Processes : UpdateVehicleSet(p)

SpecRace == Init /\ [][NextRace]_vars

\* An update of a vehicle served while the vehicle is deleted.
SpecRaceDelete ==
    Init /\ [][\/ Deliver
               \/ CreateVehicleRequest(Session({"A"}), {CivicPayload}, MaxIds)
               \/ DeleteVehicleRequest(Session({"A"}))
               \/ \E p \in Processes :
                     UpdateVehicleGet(p, Session({"A"}), {GolfPayload, PlatePayload})
               \/ \E p \in Processes : UpdateVehicleSet(p)]_vars

\* getStatusFromDate on every date of the range, at every time of the clock.
InitStatus ==
    /\ kv = EmptyStore
    /\ blobs = {}
    /\ now \in 0..MaxTime
    /\ nextId = 0
    /\ metadata = [u \in Users |-> [name |-> u]]
    /\ createdBy = EmptyStore
    /\ last = Idle
    /\ inflight = [p \in Processes |-> NotStarted]
    /\ derived \in {[date |-> date] : date \in Dates}
    /\ login = LoginScreen
    /\ app = App
    /\ notifications = DashboardScreen

NextStatus == DeriveStatus

SpecStatus == InitStatus /\ [][NextStatus]_vars

\* The app shell, with the login screen while it is rendered and has not yet
\* called onLogin.
NextApp ==
    \/ CheckSession
    \/ Rendered = "login" /\ login.onLoginCalls = 0 /\ EditForm
    \/ Rendered = "login" /\ login.onLoginCalls = 0 /\ Submit
    \/ Rendered = "login" /\ SignUpResponse
    \/ Rendered = "login" /\ SignIn
    \/ Rendered = "login" /\ FetchProfile
    \/ HandleLogin
    \/ NavigateToScreen
    \/ HandleLogout

SpecApp == Init /\ [][NextApp]_vars

\* The login screen.
NextLogin ==
    \/ EditForm
    \/ Submit
    \/ SignUpResponse
    \/ SignIn
    \/ FetchProfile

SpecLogin == Init /\ [][NextLogin]_vars

\* Every awaited promise settles: the fetches answer or fail, the timers fire.
SpecLoginFair ==
    SpecLogin /\ WF_vars(SignUpResponse) /\ WF_vars(SignIn) /\ WF_vars(FetchProfile)

\* A compliance item as handleSubmit sends it at time 0, its status derived.
Saved(date) == [date |-> date, status |-> getStatusFromDate(date, 0)]

\* The dashboard on every date of the range, as the clock advances: one
\* vehicle stored, with one date for its three items, or lacking an item.
InitNotifications ==
    /\ \E date \in Dates : \E vehicleData \in
            {[name |-> "Polo", insurance |-> Saved(date),
              inspection |-> Saved(date), taxes |-> Saved(date)],
             [name |-> "Golf", insurance |-> Saved(date), taxes |-> Saved(<<>>)]} :
          LET vehicle == NewVehicle("A", GenerateId(0, 0), vehicleData, 0) IN
          /\ kv = kv_set(EmptyStore, VehicleKey("A", vehicle.id), vehicle)
          /\ createdBy = kv_set(EmptyStore, VehicleKey("A", vehicle.id),
                                Created("A", vehicle.id, vehicle.id))
    /\ blobs = {}
    /\ now = 0
    /\ nextId = 1
    /\ metadata = [u \in Users |-> [name |-> u]]
    /\ last = Idle
    /\ inflight = [p \in Processes |-> NotStarted]
    /\ derived = NoPayload
    /\ login = LoginScreen
    /\ app = App
    /\ notifications = DashboardScreen

NextNotifications ==
    \/ Tick
    \/ Deliver
    \/ LoadNotifications({"A"})
    \/ StatsRequest(Session({"A"}))
    \/ HistoryRequest(Session({"A"}))

SpecNotifications == InitNotifications /\ [][NextNotifications]_vars

\* Every user-scoped endpoint, under every kind of Authorization header.
NextService ==
    \/ Tick
    \/ Deliver
    \/ GetProfileRequest(Headers)
    \/ UpdateProfileRequest(Headers, {PhonePayload})
    \/ ListVehiclesRequest(Headers)
    \/ CreateVehicleRequest(Headers, {CivicPayload, StampedPayload}, MaxVehicleIds)
    \/ UpdateVehicleRequest(Headers, {GolfPayload})
    \/ DeleteVehicleRequest(Headers)
    \/ ListDocumentsRequest(Headers)
    \/ AddDocumentRequest(Headers, MaxVehicleIds)
    \/ UploadDocumentRequest(Headers, MaxVehicleIds)
    \/ SignedUrlRequest(Headers)
    \/ HistoryRequest(Headers)
    \/ StatsRequest(Headers)

SpecService == Init /\ [][NextService]_vars

\* The five writes and the two listings of the isolation property.
NextIsolation ==
    \/ Deliver
    \/ CreateVehicleRequest(Session(Users), {CivicPayload, StampedPayload}, MaxVehicleIds)
    \/ UpdateVehicleRequest(Session(Users), {GolfPayload, StampedPayload})
    \/ DeleteVehicleRequest(Session(Users))
    \/ AddDocumentRequest(Session(Users), MaxVehicleIds)
    \/ UploadDocumentRequest(Session(Users), MaxVehicleIds)
    \/ ListVehiclesRequest(Session(Users))
    \/ ListDocumentsRequest(Session(Users))

SpecIsolation == Init /\ [][NextIsolation]_vars

-----------------------------------------------------------------------------
(* Properties *)

Step == last'      \* the request served by a step, with its response

\* C1. Isolation: what listVehicles and listDocuments return to a user are
\* records that this user's own requests created, never another user's; and
\* the scans behind them reach only keys the user created.
C1_Isolation ==
    /\ (last.handler \in {"listVehicles", "listDocuments"} /\ last.status = 200)
        => \A record \in last.body :
              \E k \in DOMAIN kv : kv[k] = record /\ createdBy[k].user = last.user
    /\ \A u \in Users :
          /\ \A k \in ScanKeys(kv, VehiclePrefix(u)) : createdBy[k].user = u
          /\ \A id \in VehiclePathIds :
                \A k \in ScanKeys(kv, DocumentPrefix(u, id)) : createdBy[k].user = u

\* B lists its vehicles while A holds a record.
C1_Witness ==
    /\ last.handler = "listVehicles" /\ last.status = 200 /\ last.user = "B"
    /\ \E k \in DOMAIN kv : createdBy[k].user = "A"

\* C2. No cross-user reference: updateVehicle, deleteVehicle and getSignedUrl,
\* called with the id the server gave to another user's vehicle or document,
\* answer 404, issue no signed URL and leave the store as it was.
NamesForeignRecord(r, keys) ==
    \E k \in keys : createdBy[k].user # r.user /\ createdBy[k].id = r.path[2]

C2_NoCrossUserReference ==
    [][/\ (Step.handler \in {"updateVehicle", "deleteVehicle"} /\ Step.user \in Users
             /\ NamesForeignRecord(Step, VehicleKeys(kv)))
           => (Step.status = 404 /\ kv' = kv)
       /\ (Step.handler = "getSignedUrl" /\ Step.user \in Users
             /\ NamesForeignRecord(Step, DocumentKeys(kv)))
           => (Step.status = 404 /\ Step.url = <<>> /\ kv' = kv)]_vars

\* C3. Every user-scoped endpoint answers 401 and writes nothing when the
\* request carries no token, the anonymous key or a token the identity adapter
\* rejects; the first two are rejected without consulting the adapter.
UserScopedHandlers ==
    {"getProfile", "updateProfile", "listVehicles", "createVehicle", "updateVehicle",
     "deleteVehicle", "listDocuments", "addDocumentMetadata", "uploadDocument",
     "getSignedUrl", "history", "stats"}

C3_UnauthorizedRejected ==
    [][(Step.handler \in UserScopedHandlers /\ getUser(AccessToken(Step.header)) = NoUser)
        => /\ Step.status = 401
           /\ kv' = kv /\ blobs' = blobs /\ metadata' = metadata
           /\ (AccessToken(Step.header) \in {NoToken, AnonKey} => ~Step.asked)]_vars

\* C4. Status is recomputed at write time: every stored vehicle carries, for
\* each compliance item, the status getStatusFromDate gives for the item's date
\* at the time of the write (its updatedAt); a missing date counts as empty.
StoredStatus(vehicle, item) ==
    IF item \in DOMAIN vehicle THEN Get(vehicle[item], "status") ELSE "undefined"
StoredDate(vehicle, item) ==
    IF item \in DOMAIN vehicle /\ "date" \in DOMAIN vehicle[item]
    THEN vehicle[item].date ELSE <<>>

C4_StatusRecomputedAtWrite ==
    \A k \in VehicleKeys(kv) : \A item \in Items :
        StoredStatus(kv[k], item)
            = getStatusFromDate(StoredDate(kv[k], item), GetTime(kv[k].updatedAt))

\* C5. Round trip: createVehicle for a user with no vehicles, then listVehicles,
\* gives exactly the record createVehicle returned; it carries the payload's
\* fields, the id the server generated, userId = the caller, and the server's
\* createdAt and updatedAt.
ServerStamped == {"id", "userId", "createdAt", "updatedAt"}

C5_RoundTrip ==
    [][(Step.handler = "createVehicle" /\ Step.status = 200
          /\ kv_getByPrefix(kv, VehiclePrefix(Step.user)) = {})
        => LET listed == kv_getByPrefix(kv', VehiclePrefix(Step.user)) IN
           /\ Cardinality(listed) = 1
           /\ listed = Step.body
           /\ \A record \in listed :
                /\ \A f \in DOMAIN Step.payload \ ServerStamped :
                      f \in DOMAIN record /\ record[f] = Step.payload[f]
                /\ record.id = GenerateId(now, nextId)
                /\ record.userId = Step.user
                /\ record.createdAt = ISO(now)
                /\ record.updatedAt = ISO(now)]_vars

\* C6. updateVehicle: with no record under the caller's key it answers 404 and
\* creates nothing; otherwise the stored record has the payload's value for
\* every field the payload names, its former value for every other field, and
\* updatedAt set to the time of the update; no other key changes.
C6_UpdateMerges ==
    [][(Step.handler = "updateVehicle" /\ Step.user \in Users)
        => LET key == VehicleKey(Step.user, Step.path[2]) IN
           IF key \notin DOMAIN kv
           THEN Step.status = 404 /\ kv' = kv
           ELSE /\ Step.status = 200
                /\ DOMAIN kv' = DOMAIN kv
                /\ \A k \in DOMAIN kv \ {key} : kv'[k] = kv[k]
                /\ DOMAIN kv'[key] = DOMAIN kv[key] \cup DOMAIN Step.payload \cup {"updatedAt"}
                /\ \A f \in DOMAIN kv'[key] :
                      kv'[key][f] = IF f = "updatedAt" THEN ISO(now)
                                    ELSE IF f \in DOMAIN Step.payload THEN Step.payload[f]
                                    ELSE kv[key][f]]_vars

\* A partial update, later than the creation, that kept what it did not name.
C6_Witness ==
    /\ last.handler = "updateVehicle" /\ last.status = 200
    /\ last.payload = GolfPayload
    /\ \E record \in last.body :
          /\ record.name = "Golf"
          /\ "inspection" \in DOMAIN record /\ record.inspection = CivicPayload.inspection
          /\ GetTime(record.updatedAt) > GetTime(record.createdAt)

\* C7. deleteVehicle on an id with no record under the caller's key answers 404
\* and leaves the store unchanged; on an existing vehicle it answers success
\* and removes that key only; deleting again answers 404.
C7_DeleteNotIdempotent ==
    [][(Step.handler = "deleteVehicle" /\ Step.user \in Users)
        => LET key == VehicleKey(Step.user, Step.path[2]) IN
           /\ IF key \notin DOMAIN kv
              THEN Step.status = 404 /\ kv' = kv
              ELSE Step.status = 200 /\ kv' = kv_del(kv, key)
           /\ key \in DeletedKeys => Step.status = 404]_vars

\* The second delete of a vehicle.
C7_Witness ==
    /\ last.handler = "deleteVehicle" /\ last.status = 404
    /\ VehicleKey(last.user, last.path[2]) \in DeletedKeys

\* C8. Upload atomicity: when the blob write fails the request answers an
\* error and stores no metadata, so the vehicle's documents list as before; a
\* metadata record is stored only with its blob written.
IsUpload(r) == r.method = "POST" /\ Len(r.path) = 4 /\ r.path[4] = Lit("upload")

C8_UploadAtomic ==
    [][IsUpload(Step)
        => /\ Step.blob.upload = "error"
               => /\ Step.status >= 400
                  /\ kv' = kv
                  /\ kv_getByPrefix(kv', DocumentPrefix(Step.user, Step.path[2]))
                       = kv_getByPrefix(kv, DocumentPrefix(Step.user, Step.path[2]))
           /\ kv' # kv
               => /\ Step.blob.upload = "ok"
                  /\ \A k \in DOMAIN kv' \ DOMAIN kv :
                        kv'[k].filePath \in blobs' \ blobs]_vars

\* A failed blob write for a vehicle that already has a document.
C8_Witness ==
    /\ IsUpload(last) /\ last.blob.upload = "error" /\ last.status = 500
    /\ kv_getByPrefix(kv, DocumentPrefix(last.user, last.path[2])) # {}

\* C9. An upload, with its file and its documentData, for a vehicleId with no
\* vehicle record under the caller's key answers 404 and writes neither a blob
\* nor a metadata record.
C9_UploadNeedsVehicle ==
    [][(IsUpload(Step) /\ Step.user \in Users
          /\ Step.payload.file.kind = "file" /\ Step.payload.documentData.kind = "json"
          /\ VehicleKey(Step.user, Step.path[2]) \notin DOMAIN kv)
        => (Step.status = 404 /\ kv' = kv /\ blobs' = blobs)]_vars

\* C10. deleteDocument, the client's DELETE /vehicles/:id/documents/:documentId,
\* on an existing document removes its metadata record, so that listDocuments
\* no longer returns it, and leaves the Blob Store unchanged.
IsDeleteDocument(r) ==
    r.method = "DELETE" /\ Len(r.path) = 4 /\ r.path[3] = Lit("documents")

C10_DeleteDocumentRemoves ==
    [][(IsDeleteDocument(Step) /\ getUser(AccessToken(Step.header)) \in Users)
        => LET u == getUser(AccessToken(Step.header))
               key == DocumentKey(u, Step.path[2], Step.path[4])
           IN key \in DOMAIN kv
               => /\ key \notin DOMAIN kv'
                  /\ kv[key] \notin kv_getByPrefix(kv', DocumentPrefix(u, Step.path[2]))
                  /\ blobs' = blobs]_vars

\* C11. An upload that lacks the file part, lacks the documentData part, or
\* carries a documentData part that is not JSON is answered 400 and writes
\* neither a blob nor a metadata record.
C11_BadUploadRejected ==
    [][(IsUpload(Step) /\ Step.user \in Users
          /\ (Step.payload.file.kind # "file" \/ Step.payload.documentData.kind # "json"))
        => (Step.status = 400 /\ kv' = kv /\ blobs' = blobs)]_vars

\* C12. getSignedUrl answers 404 and asks the Blob Store for nothing when the
\* caller has no document with the id, or has one without a filePath; otherwise
\* it asks for a signed URL of that document's filePath, and answers with it.
DocumentsOf(u) == {kv[k] : k \in {d \in DocumentKeys(kv) : createdBy[d].user = u}}

C12_SignedUrlLookup ==
    [][(Step.handler = "getSignedUrl" /\ Step.user \in Users)
        => LET found == {d \in DocumentsOf(Step.user) : d.id = Step.path[2]} IN
           /\ (\A d \in found : ~HasFilePath(d))
               => (Step.status = 404 /\ Step.blob = NoBlobCall /\ Step.url = <<>>)
           /\ (found # {} /\ \A d \in found : HasFilePath(d))
               => /\ Step.blob.sign \in Outcomes
                  /\ Step.blob.sign = "ok"
                      => /\ Step.status = 200
                         /\ \E d \in found : Step.url = SignedUrl(d.filePath, "ok")
                  /\ Step.blob.sign = "error" => (Step.status = 500 /\ Step.url = <<>>)
           /\ kv' = kv /\ blobs' = blobs]_vars

\* A metadata-only document is asked for.
C12_Witness ==
    /\ last.handler = "getSignedUrl" /\ last.status = 404
    /\ \E d \in DocumentsOf(last.user) : d.id = last.path[2] /\ ~HasFilePath(d)

\* C13. After a successful upload the new document is among those the
\* per-vehicle scan of listDocuments returns and is the one the lookup of
\* getSignedUrl finds, with its blob in place; listDocuments returns every
\* uploaded document of the vehicle, and getSignedUrl for an uploaded document,
\* the caller's only one with that id, is not answered 404.
UploadedKeys(u) ==
    {k \in DocumentKeys(kv) : createdBy[k].user = u /\ HasFilePath(kv[k])
                                /\ kv[k].filePath \in blobs}

C13_UploadedIsFound ==
    /\ (last.handler = "uploadDocument" /\ last.status = 200)
        => \A document \in last.body :
              /\ document \in kv_getByPrefix(kv, DocumentPrefix(last.user, last.path[2]))
              /\ FindById(kv_getByPrefix(kv, UserDocumentPrefix(last.user)), document.id)
                    = {document}
              /\ HasFilePath(document) /\ document.filePath \in blobs
    /\ (last.handler = "listDocuments" /\ last.status = 200)
        => \A k \in UploadedKeys(last.user) :
              createdBy[k].vehicleId = last.path[2] => kv[k] \in last.body
    /\ (last.handler = "getSignedUrl" /\ last.user \in Users)
        => \A k \in UploadedKeys(last.user) :
              (kv[k].id = last.path[2]
                 /\ \A d \in DocumentsOf(last.user) : d.id = kv[k].id => d = kv[k])
                  => /\ last.status # 404
                     /\ last.blob.sign = "ok"
                         => (last.status = 200 /\ last.url = SignedUrl(kv[k].filePath, "ok"))

\* The signed URL of an uploaded document.
C13_Witness ==
    /\ last.handler = "getSignedUrl" /\ last.status = 200
    /\ \E k \in UploadedKeys(last.user) :
          kv[k].id = last.path[2] /\ last.url = SignedUrl(kv[k].filePath, "ok")

\* C14. deleteVehicle does not cascade: a successful delete removes the
\* vehicle's key and nothing else, so every document of the vehicle and every
\* blob stays as it was; listDocuments still returns the documents of a deleted
\* vehicle, and /stats totalDocuments still counts them.
DocumentKeysOf(u) == {k \in DocumentKeys(createdBy) : createdBy[k].user = u}

C14_NoCascade ==
    [][/\ (Step.handler = "deleteVehicle" /\ Step.status = 200)
           => LET key == VehicleKey(Step.user, Step.path[2]) IN
              /\ key \in DOMAIN kv
              /\ DOMAIN kv' = DOMAIN kv \ {key}
              /\ \A k \in DOMAIN kv' : kv'[k] = kv[k]
              /\ blobs' = blobs
       /\ DocumentKeys(createdBy') \subseteq DOMAIN kv'
       /\ (Step.handler = "listDocuments" /\ Step.status = 200)
           => Step.body = {kv'[k] : k \in {d \in DocumentKeysOf(Step.user) :
                                               createdBy[d].vehicleId = Step.path[2]}}
       /\ (Step.handler = "stats" /\ Step.status = 200)
           => \A stats \in Step.body :
                 stats.totalDocuments = Cardinality(DocumentKeysOf(Step.user))]_vars

\* The documents of a deleted vehicle are listed.
C14_Witness ==
    /\ last.handler = "listDocuments" /\ last.status = 200 /\ last.body # {}
    /\ VehicleKey(last.user, last.path[2]) \in DeletedKeys
    /\ blobs # {}

\* C18. /stats: totalVehicles and totalDocuments are the numbers of the
\* caller's vehicle and document records; expiredItems, expiringItems and
\* validItems are the numbers of (vehicle, item) pairs whose stored status is
\* expired, warning and valid, at most three per vehicle; two vehicles with one
\* expired and two valid items each give expiredItems = 2 and validItems = 4.
VehicleKeysOf(u) == {k \in VehicleKeys(kv) : createdBy[k].user = u}
ItemsWithStatus(u, status) ==
    {<<k, item>> \in VehicleKeysOf(u) \X Items : StoredStatus(kv[k], item) = status}

C18_Stats ==
    (last.handler = "stats" /\ last.status = 200)
        => \A stats \in last.body :
              /\ stats.totalVehicles = Cardinality(VehicleKeysOf(last.user))
              /\ stats.totalDocuments
                    = Cardinality({k \in DocumentKeys(kv) : createdBy[k].user = last.user})
              /\ stats.expiredItems = Cardinality(ItemsWithStatus(last.user, "expired"))
              /\ stats.expiringItems = Cardinality(ItemsWithStatus(last.user, "warning"))
              /\ stats.validItems = Cardinality(ItemsWithStatus(last.user, "valid"))
              /\ stats.expiredItems + stats.expiringItems + stats.validItems
                    <= 3 * stats.totalVehicles
              /\ (/\ Cardinality(VehicleKeysOf(last.user)) = 2
                  /\ \A k \in VehicleKeysOf(last.user) :
                        /\ Cardinality({i \in Items : StoredStatus(kv[k], i) = "expired"}) = 1
                        /\ Cardinality({i \in Items : StoredStatus(kv[k], i) = "valid"}) = 2)
                  => (stats.expiredItems = 2 /\ stats.validItems = 4)

\* Two vehicles, each with one expired item and two valid ones.
C18_Witness ==
    /\ last.handler = "stats" /\ last.status = 200
    /\ \E stats \in last.body :
          stats.totalVehicles = 2 /\ stats.expiredItems = 2 /\ stats.validItems = 4

\* C16. /history is sorted by event date, newest first: no item is older than
\* the one after it, and items of equal date stay in insertion order (the
\* vehicles in scan order, each with its vehicle, insurance, inspection and
\* taxes events, then the documents in scan order). A vehicle created at T1
\* with an insurance date T2 < T1 and a document created at T3 > T1 come out
\* as document, vehicle, insurance.
TypeRank(type) ==
    CASE type = "vehicle" -> 0 [] type = "insurance" -> 1 [] type = "inspection" -> 2
      [] type = "taxes" -> 3 [] OTHER -> 0

\* Where the handler pushed an item: <<0, vehicle's place in its scan, rank>>
\* or <<1, document's place in its scan, 0>>.
Pushed(x, scans) ==
    IF x.type = "document"
    THEN <<1, CHOOSE i \in DOMAIN scans.allDocuments :
                    <<"document", "_">> \o scans.allDocuments[i].id = x.id, 0>>
    ELSE <<0, CHOOSE i \in DOMAIN scans.vehicles : scans.vehicles[i].id = x.vehicleId,
           TypeRank(x.type)>>

PushedBefore(a, b) ==
    \/ a[1] < b[1]
    \/ a[1] = b[1] /\ a[2] < b[2]
    \/ a[1] = b[1] /\ a[2] = b[2] /\ a[3] < b[3]

C16_HistorySorted ==
    (last.handler = "history" /\ last.status = 200)
        => \A r \in last.body :
              /\ \A i, j \in DOMAIN r.history :
                    i < j => \/ GetTime(r.history[i].date) > GetTime(r.history[j].date)
                             \/ /\ r.history[i].date = r.history[j].date
                                /\ PushedBefore(Pushed(r.history[i], r), Pushed(r.history[j], r))
              /\ (/\ Len(r.vehicles) = 1 /\ Len(r.allDocuments) = 1
                  /\ StoredDate(r.vehicles[1], "insurance") # <<>>
                  /\ StoredDate(r.vehicles[1], "inspection") = <<>>
                  /\ StoredDate(r.vehicles[1], "taxes") = <<>>
                  /\ GetTime(r.vehicles[1].insurance.date) < GetTime(r.vehicles[1].createdAt)
                  /\ GetTime(r.allDocuments[1].createdAt) > GetTime(r.vehicles[1].createdAt))
                  => [i \in DOMAIN r.history |-> r.history[i].type]
                        = <<"document", "vehicle", "insurance">>

\* The scenario: a later document, the vehicle, its earlier insurance date.
C16_Witness ==
    /\ last.handler = "history" /\ last.status = 200
    /\ \E r \in last.body :
          /\ Len(r.history) = 3
          /\ [i \in DOMAIN r.history |-> r.history[i].type]
                = <<"document", "vehicle", "insurance">>
          /\ GetTime(r.history[1].date) > GetTime(r.history[2].date)

\* C17. /history holds exactly: one vehicle event per vehicle of the caller,
\* dated at its createdAt; one event per compliance item with a non-empty date,
\* dated at that date and carrying the stored status, and none for an item
\* with an empty or missing date; one document event per document of the
\* caller, dated at its createdAt. Their number is the sum of the three.
Events(history, type, id) ==
    {i \in DOMAIN history : history[i].type = type /\ history[i].id = id}

DatedItems(u) ==
    {<<k, item>> \in VehicleKeysOf(u) \X Items : StoredDate(kv[k], item) # <<>>}

C17_HistoryContents ==
    (last.handler = "history" /\ last.status = 200)
        => \A r \in last.body :
              LET u == last.user
                  documentKeys == {k \in DocumentKeys(kv) : createdBy[k].user = u}
              IN
              /\ Len(r.history) = Cardinality(VehicleKeysOf(u)) + Cardinality(DatedItems(u))
                                    + Cardinality(documentKeys)
              /\ \A k \in VehicleKeysOf(u) :
                    LET events == Events(r.history, "vehicle", <<"vehicle", "_">> \o kv[k].id)
                    IN /\ Cardinality(events) = 1
                       /\ \A i \in events : r.history[i].date = kv[k].createdAt
              /\ \A k \in VehicleKeysOf(u) : \A item \in Items :
                    LET events == Events(r.history, item, <<item, "_">> \o kv[k].id)
                    IN IF StoredDate(kv[k], item) = <<>>
                       THEN events = {}
                       ELSE /\ Cardinality(events) = 1
                            /\ \A i \in events :
                                  /\ r.history[i].date = kv[k][item].date
                                  /\ r.history[i].status = StoredStatus(kv[k], item)
              /\ \A k \in documentKeys :
                    LET events == Events(r.history, "document", <<"document", "_">> \o kv[k].id)
                    IN /\ Cardinality(events) = 1
                       /\ \A i \in events : r.history[i].date = kv[k].createdAt

\* A vehicle whose taxes have no date, and a document.
C17_Witness ==
    /\ last.handler = "history" /\ last.status = 200
    /\ \E r \in last.body :
          /\ Len(r.history) = 4
          /\ \E k \in VehicleKeysOf(last.user) : StoredDate(kv[k], "taxes") = <<>>
          /\ \E i \in DOMAIN r.history : r.history[i].type = "document"

\* C19. GET /profile: the user object carries the overlay's value for every
\* field of the user_profile_<userId> entry, and for a field the entry lacks
\* the identity's value: id, email, the metadata's name or 'User', the default
\* avatar; it has no other field.
Overlay(u) == IF ProfileKey(u) \in DOMAIN kv THEN kv[ProfileKey(u)] ELSE NoPayload

C19_OverlayFirst ==
    (last.handler = "getProfile" /\ last.status = 200)
        => \A user \in last.body :
              LET u == last.user
                  overlay == Overlay(u)
              IN
              /\ DOMAIN user = {"id", "email", "name", "avatar"} \cup DOMAIN overlay
              /\ \A f \in DOMAIN overlay : user[f] = overlay[f]
              /\ "id" \notin DOMAIN overlay => user.id = u
              /\ "email" \notin DOMAIN overlay => user.email = Email(u)
              /\ "name" \notin DOMAIN overlay
                    => user.name = IF "name" \in DOMAIN metadata[u] /\ metadata[u].name # ""
                                   THEN metadata[u].name ELSE "User"
              /\ "avatar" \notin DOMAIN overlay => user.avatar = DefaultAvatar

\* The overlay's email is returned, not the identity's, with the default name.
C19_Witness ==
    /\ last.handler = "getProfile" /\ last.status = 200
    /\ "email" \in DOMAIN Overlay(last.user)
    /\ \E user \in last.body :
          user.email # Email(last.user) /\ user.name = "User"

\* C15. getStatusFromDate, for d = date - now: expired when d < 0, warning
\* when 0 <= d < 60 days, valid when d >= 60 days, and expired for the empty
\* date string; d = 0 is warning and d = 60 days is valid.
C15_DeriveStatus ==
    "status" \in DOMAIN derived
        => IF derived.date = <<>> THEN derived.status = "expired"
           ELSE LET d == derived.date[1] - now IN
                /\ d < 0 => derived.status = "expired"
                /\ (0 <= d /\ d < 60) => derived.status = "warning"
                /\ d >= 60 => derived.status = "valid"
                /\ d = 0 => derived.status = "warning"
                /\ d = 60 => derived.status = "valid"

\* The status of a date exactly 60 days ahead, derived after the clock moved.
C15_Witness ==
    /\ "status" \in DOMAIN derived /\ derived.date # <<>>
    /\ now > 0 /\ derived.date[1] - now = 60 /\ derived.status = "valid"

\* C20. Two updateVehicle requests served at once resolve as last write wins:
\* each set stores exactly the merge of its payload onto the record its own
\* get had read, and answers success; when both read before either wrote, what
\* only the first writer changed is not in the final record.
Merged(existing, payload, time) ==
    [f \in DOMAIN existing \cup DOMAIN payload \cup {"updatedAt"} |->
        IF f = "updatedAt" THEN ISO(time)
        ELSE IF f \in DOMAIN payload THEN payload[f] ELSE existing[f]]

Sets(p) == inflight[p].pc = "set" /\ inflight'[p].pc = "done"

C20_LastWriteWins ==
    [][\A p \in Processes : Sets(p) =>
          LET mine == inflight[p]
              key == mine.key
          IN
          /\ inflight'[p].status = 200
          /\ \E time \in 0..now :
                kv'[key] = Merged(mine.existingVehicle, mine.req.payload, time)
          /\ \A k \in DOMAIN kv' \ {key} : k \in DOMAIN kv /\ kv'[k] = kv[k]
          /\ \A q \in Processes \ {p} :
                (/\ inflight[q].pc = "done" /\ inflight[q].status = 200
                 /\ inflight[q].key = key
                 /\ inflight[q].existingVehicle = mine.existingVehicle)
                 => \A f \in DOMAIN inflight[q].req.payload \ DOMAIN mine.req.payload :
                       /\ f \in DOMAIN kv'[key] <=> f \in DOMAIN mine.existingVehicle
                       /\ f \in DOMAIN kv'[key] => kv'[key][f] = mine.existingVehicle[f]]_vars

\* Both requests answered success; the name the first writer set is lost.
C20_Witness ==
    /\ \A p \in Processes : inflight[p].pc = "done" /\ inflight[p].status = 200
    /\ inflight[1].existingVehicle = inflight[2].existingVehicle
    /\ inflight[1].req.payload = GolfPayload /\ inflight[2].req.payload = PlatePayload
    /\ \E k \in VehicleKeys(kv) :
          /\ k = inflight[1].key /\ k = inflight[2].key
          /\ kv[k].name = "Civic" /\ kv[k].plate = "AA-00-AA"

\* C21. After a successful sign-in the client fetches the profile at most 3
\* times, stops at the first success and then calls onLogin exactly once; after
\* 3 failures it calls onLogin zero times and sets an error; a failed sign-in
\* makes no profile fetch; the handler always ends, with isLoading = false.
Failures(fetched) == {i \in DOMAIN fetched : fetched[i] # "ok"}

C21_Bounded ==
    /\ Len(login.fetched) <= 3
    /\ login.onLoginCalls <= 1
    /\ \A i \in DOMAIN login.fetched : login.fetched[i] = "ok" => i = Len(login.fetched)
    /\ login.onLoginCalls = 1
          <=> (login.fetched # <<>> /\ login.fetched[Len(login.fetched)] = "ok")
    /\ ~login.signedIn => login.fetched = <<>>
    /\ login.pc = "done" =>
          /\ ~login.isLoading
          /\ login.signedIn =>
                \/ login.onLoginCalls = 1
                \/ /\ Len(login.fetched) = 3
                   /\ Failures(login.fetched) = 1..3
                   /\ login.onLoginCalls = 0
                   /\ login.error = login.fetched[3]
                   /\ login.error # ""

C21_ProfileRetry ==
    /\ []C21_Bounded
    /\ (login.pc \notin {"idle", "done"}) ~> (login.pc = "done" /\ ~login.isLoading)

\* Two failures, then the third fetch succeeds and onLogin is called.
C21_Witness ==
    /\ login.pc = "done" /\ login.signedIn /\ login.isSignUp
    /\ Len(login.fetched) = 3 /\ Failures(login.fetched) = 1..2
    /\ login.onLoginCalls = 1

\* C22. A document whose vehicleId matches no vehicle of the user does not make
\* /history fail: the answer is 200 and holds that document's event, with
\* vehicleName 'Viatura' and vehiclePlate ''.
StoredDocumentKeysOf(u) == {k \in DocumentKeys(kv) : createdBy[k].user = u}

Orphan(u, k) == \A v \in VehicleKeysOf(u) : kv[v].id # kv[k].vehicleId

C22_OrphanPlaceholder ==
    (last.handler = "history" /\ last.status # 401)
        => /\ last.status = 200
           /\ \A r \in last.body : \A k \in StoredDocumentKeysOf(last.user) :
                 Orphan(last.user, k)
                    => \E i \in Events(r.history, "document", <<"document", "_">> \o kv[k].id) :
                          /\ r.history[i].vehicleId = kv[k].vehicleId
                          /\ r.history[i].vehicleName = "Viatura"
                          /\ r.history[i].vehiclePlate = ""

\* A history read after the vehicle of a document was deleted, with another
\* vehicle still there.
C22_Witness ==
    /\ last.handler = "history" /\ last.status = 200
    /\ VehicleKeysOf(last.user) # {}
    /\ \E k \in StoredDocumentKeysOf(last.user) :
          /\ Orphan(last.user, k)
          /\ VehicleKey(last.user, createdBy[k].vehicleId) \in DeletedKeys

\* C23. The client's notifications, per item with a non-empty date and
\* days = floor((date - now) / 1 day): a warning exactly when 0 <= days <= W,
\* an 'expired' error exactly when days < 0, nothing when days > W, with W = 7
\* for insurance, 14 for inspection, 30 for taxes; an item with an empty or
\* missing date produces no notification.
Notified(item, vehicle, type) ==
    {i \in DOMAIN notifications.items :
        /\ notifications.items[i].id = <<item, "_">> \o vehicle.id
        /\ notifications.items[i].type = type}

\* floor((date - now) / 1 day), by its definition: the integer n with
\* n days <= date - now < (n + 1) days
Floor(date, at) ==
    CHOOSE n \in -200..200 :
        /\ n * TicksPerDay <= date[1] * TicksPerDay - at
        /\ date[1] * TicksPerDay - at < (n + 1) * TicksPerDay

C23_Windows ==
    \A v \in DOMAIN notifications.vehicles :
        LET vehicle == notifications.vehicles[v]
            W == [insurance |-> 7, inspection |-> 14, taxes |-> 30]
        IN \A item \in Items :
              LET warnings == Cardinality(Notified(item, vehicle, "warning"))
                  errors == Cardinality(Notified(item, vehicle, "error"))
              IN IF StoredDate(vehicle, item) = <<>>
                 THEN warnings = 0 /\ errors = 0
                 ELSE LET days == Floor(vehicle[item].date, notifications.at) IN
                      /\ warnings = IF 0 <= days /\ days <= W[item] THEN 1 ELSE 0
                      /\ errors = IF days < 0 THEN 1 ELSE 0

\* Part of a day past the start of the insurance's date: it has expired.
C23_Witness ==
    /\ notifications.vehicles # <<>>
    /\ notifications.at % TicksPerDay # 0
    /\ LET vehicle == notifications.vehicles[1] IN
       /\ StoredDate(vehicle, "insurance") # <<>>
       /\ StoredDate(vehicle, "taxes") = <<>>
       /\ vehicle.insurance.date[1] * TicksPerDay - notifications.at = -1
       /\ Notified("insurance", vehicle, "error") # {}
       /\ Len(notifications.items) = 1

\* C24. The payload cannot overwrite the server-assigned identity: after any
\* createVehicle and updateVehicle calls, payloads naming id, userId or
\* createdAt among them, every record stored under key vehicle_<u>_<i> has
\* id = i and userId = u, and updateVehicle never changes a record's createdAt.
C24_IdentityKept ==
    [][/\ \A k \in VehicleKeys(kv') :
            /\ kv'[k].id = createdBy'[k].id
            /\ kv'[k].userId = createdBy'[k].user
       /\ Step.handler = "updateVehicle"
            => \A k \in VehicleKeys(kv) \cap VehicleKeys(kv') :
                  kv'[k].createdAt = kv[k].createdAt]_vars

\* C25. getSignedUrl(u, d) only ever signs a blob path that an uploadDocument
\* of user u wrote, a path under the <u>/ namespace: no requests by u,
\* addDocumentMetadata with a payload naming filePath among them, make the
\* service issue a signed URL for a path under another user's namespace.
C25_SignedPathIsOwn ==
    (last.handler = "getSignedUrl" /\ last.status = 200)
        => /\ last.url # <<>>
           /\ Tail(last.url) \in blobs
           /\ Tail(last.url)[1] = last.user

\* C26. listDocuments(u, v) returns exactly the documents created by requests
\* addressed to vehicle v of user u: a document created under another vehicle
\* id v' is never returned, also when v is a proper prefix of v' that ends at
\* an underscore.
C26_ListedByVehicle ==
    (last.handler = "listDocuments" /\ last.status = 200)
        => last.body = {kv[k] : k \in {d \in DocumentKeys(kv) :
                                          /\ createdBy[d].user = last.user
                                          /\ createdBy[d].vehicleId = last.path[2]}}

\* C27. A successful delete is durable under interleaving: once deleteVehicle
\* has answered success and every request in flight has completed, no record
\* exists under the vehicle's key; an updateVehicle whose get ran before the
\* delete and whose set runs after it does not re-create the record.
C27_DeleteDurable ==
    (/\ last.handler = "deleteVehicle" /\ last.status = 200
     /\ \A p \in Processes : inflight[p].pc # "set")
        => VehicleKey(last.user, last.path[2]) \notin DOMAIN kv

\* C28. Profile fields persist across partial updates: a field written by a
\* successful PUT /profile is still returned with that value by GET /profile
\* after later successful PUT /profile requests that do not name it.  The
\* identity's user_metadata merges every accepted payload, so it holds the last
\* value written to each field; its name, set at signup, is left aside.
C28_FieldsPersist ==
    (last.handler = "getProfile" /\ last.status = 200)
        => \A r \in last.body : \A f \in DOMAIN metadata[last.user] \ {"name"} :
              f \in DOMAIN r /\ r[f] = metadata[last.user][f]

\* C29. On every path of checkSession the check ends with isLoading = false, in
\* one of two states: dashboard with user set, or login with user = null.
\* After that, under login, navigation and logout, a screen other than login
\* is rendered only while user is non-null, and logout always leads to
\* currentScreen = login with user = null.
C29_SessionAndLogout ==
    [][/\ (app.isLoading /\ ~app'.isLoading)
            => \/ app'.currentScreen = "dashboard" /\ app'.user # {}
               \/ app'.currentScreen = "login" /\ app'.user = {}
       /\ (app.isLoading /\ app'.isLoading) => app'.pc # "done"
       /\ Rendered' \in {"dashboard", "history", "profile", "payments"} => app'.user # {}
       /\ HandleLogout => (app'.currentScreen = "login" /\ app'.user = {})]_vars

\* C30. Stored status is as of the last write, not as of the read: with no
\* write to a vehicle, /stats and /history report each item's status unchanged
\* as the clock advances; once now passes an item's date the item is still
\* counted in validItems or expiringItems by /stats while the client's
\* notification logic, which recomputes from the date, reports it expired.
AsOfWrite(u, status) ==
    {<<k, item>> \in VehicleKeysOf(u) \X Items :
        /\ item \in DOMAIN kv[k]
        /\ getStatusFromDate(StoredDate(kv[k], item), GetTime(kv[k].updatedAt)) = status}

C30_StatusAsOfWrite ==
    /\ (last.handler = "stats" /\ last.status = 200)
          => \A stats \in last.body :
                /\ stats.expiredItems = Cardinality(AsOfWrite(last.user, "expired"))
                /\ stats.expiringItems = Cardinality(AsOfWrite(last.user, "warning"))
                /\ stats.validItems = Cardinality(AsOfWrite(last.user, "valid"))
    /\ (last.handler = "history" /\ last.status = 200)
          => \A r \in last.body : \A i \in DOMAIN r.history :
                r.history[i].type \in Items
                   => \E k \in VehicleKeysOf(last.user) :
                         /\ r.history[i].id = <<r.history[i].type, "_">> \o kv[k].id
                         /\ r.history[i].status
                               = getStatusFromDate(r.history[i].date, GetTime(kv[k].updatedAt))

\* The clock has passed the date of an item saved as expiring: /stats still
\* counts it in expiringItems, and none as expired, while the notifications
\* loaded at the same time report it expired.
C30_Witness ==
    /\ last.handler = "stats" /\ last.status = 200
    /\ notifications.user = last.user
    /\ notifications.at \div TicksPerDay = now
    /\ \E k \in VehicleKeysOf(last.user) :
          /\ kv[k].insurance.status = "warning"
          /\ GetTime(kv[k].insurance.date) < now
          /\ Notified("insurance", kv[k], "error") # {}
          /\ \A stats \in last.body : stats.expiringItems >= 1 /\ stats.expiredItems <= 1

====
